---- MODULE Spec2Model ----
(***************************************************************************)
(* Late-interest engine of SubCloseProd: the interest rate calculator, the *)
(* late interest calculator, the allocation calculator and the             *)
(* orchestrator LateInterestEngine.run_complete_calculation.               *)
(*                                                                         *)
(* Decimal values are modelled as exact fractions <<numerator,             *)
(* denominator>> in lowest terms.  Decimal.quantize is modelled with the   *)
(* rounding of the default decimal context (ROUND_HALF_EVEN), which is the *)
(* context the calculators run under.  The 28-digit precision of the       *)
(* default context is not modelled: +, * and / are exact.  Dates are day   *)
(* ordinals, so (a - b).days is a - b.                                     *)
(***************************************************************************)
EXTENDS Integers, Sequences, FiniteSets, TLC

VARIABLES
    assumptions,        \* FundAssumptions held by the calculator under call
    rate_calculator,    \* the InterestRateCalculator built from them
    op,                 \* the calculator method invoked ("none" before a call)
    args,               \* its arguments
    ret,                \* what it returned (or that it raised)
    run                 \* the frame of run_complete_calculation: its position
                        \* (pc) and its local variables

calc_vars == <<assumptions, rate_calculator>>
call_vars == <<op, args, ret>>
vars == <<calc_vars, call_vars, run>>

-----------------------------------------------------------------------------
(* Bounds of the model                                                     *)

MaxPartners == 2        \* longest all_partners list given to the allocators
MaxNewLps == 2          \* longest new_lps list given to the allocators
MaxHistory == 3         \* longest prime_rate_history
MaxDay == 3             \* dates are the day ordinals 0..MaxDay
MaxCalls == 2           \* longest capital_calls list given to the late interest calculator

-----------------------------------------------------------------------------
(* decimal.Decimal                                                         *)

Abs(x) == IF x < 0 THEN -x ELSE x

RECURSIVE GCD(_, _)
GCD(a, b) == IF b = 0 THEN a ELSE GCD(b, a % b)

\* The fraction n/d (d > 0) in lowest terms.
Dec(n, d) == LET g == GCD(Abs(n), d) IN <<n \div g, d \div g>>

DecInt(i) == <<i, 1>>
DecZero == <<0, 1>>

DecAdd(a, b) == Dec(a[1] * b[2] + b[1] * a[2], a[2] * b[2])
\* A plausible slip: the operands of a difference the wrong way round.
DecSub_reversed(a, b) == Dec(b[1] * a[2] - a[1] * b[2], a[2] * b[2])
DecSub(a, b) == Dec(a[1] * b[2] - b[1] * a[2], a[2] * b[2])
DecMul(a, b) == Dec(a[1] * b[1], a[2] * b[2])
\* a / b for b # 0
DecDiv(a, b) ==
    IF b[1] > 0 THEN Dec(a[1] * b[2], a[2] * b[1])
                ELSE Dec(-(a[1] * b[2]), a[2] * (-b[1]))
DecLt(a, b) == a[1] * b[2] < b[1] * a[2]

RECURSIVE Pow10(_)
Pow10(k) == IF k = 0 THEN 1 ELSE 10 * Pow10(k - 1)

\* sum(...) over a sequence of Decimals, left to right from 0
RECURSIVE DecSum(_)
DecSum(s) == IF s = <<>> THEN DecZero
             ELSE DecAdd(DecSum(SubSeq(s, 1, Len(s) - 1)), s[Len(s)])

\* floor(amount * s) and the remainder amount * s - floor(amount * s), in units
\* of 1/amount[2], computed from the whole part and the fraction of amount so
\* that no intermediate product leaves the range of the integers
ScaledQuotient(amount, s) ==
    (amount[1] \div amount[2]) * s + ((amount[1] % amount[2]) * s) \div amount[2]
ScaledRemainder(amount, s) == ((amount[1] % amount[2]) * s) % amount[2]

\* A plausible slip: quantize rounding half-way values up instead of to even.
round_amount_half_up(amount, decimal_places) ==
    LET s == Pow10(decimal_places)
        q == ScaledQuotient(amount, s)
        r == ScaledRemainder(amount, s)
    IN  IF 2 * r >= amount[2] THEN Dec(q + 1, s) ELSE Dec(q, s)

\* A plausible slip: truncating toward the floor instead of rounding.
round_amount_floor(amount, decimal_places) ==
    LET s == Pow10(decimal_places)
    IN  Dec(ScaledQuotient(amount, s), s)

\* _round_amount: amount.quantize(Decimal('0.1') ** decimal_places), or
\* quantize(Decimal('1')) for 0 places; the context rounds half to even.
round_amount(amount, decimal_places) ==
    LET s == Pow10(decimal_places)
        q == ScaledQuotient(amount, s)
        r == ScaledRemainder(amount, s)
    IN  IF 2 * r < amount[2] THEN Dec(q, s)
        ELSE IF 2 * r > amount[2] THEN Dec(q + 1, s)
        ELSE IF q % 2 = 0 THEN Dec(q, s) ELSE Dec(q + 1, s)

-----------------------------------------------------------------------------
(* The exceptions the calculators raise: type and message                  *)

ZeroCommitmentError == "ValueError: Total existing commitment cannot be zero"
NoRateSourceError == "ValueError: Must provide either rate_history or flat_rate"
NoRateHistoryError == "ValueError: No rate history available"
InvalidRangeError == "ValueError: End date must be after start date"

-----------------------------------------------------------------------------
(* Sequence helpers (list comprehensions of the source)                    *)

Range(s) == {s[i] : i \in 1..Len(s)}

\* The k-th smallest element of the set of integers I
Kth(I, k) == CHOOSE i \in I : Cardinality({j \in I : j < i}) = k - 1

\* all sequences over S of length at most n
SeqUpTo(S, n) == UNION {[1..k -> S] : k \in 0..n}

-----------------------------------------------------------------------------
(* AllocationCalculator                                                    *)

Raised(what) == [raised |-> what, allocations |-> <<>>, total_allocated |-> DecZero]
Returned(allocations, total) ==
    [raised |-> "none", allocations |-> allocations, total_allocated |-> total]

\* A plausible slip: <= for <, counting the admitted close as existing.
ExistingPartners_inclusive(all_partners, admitting_close_number) ==
    SelectSeq(all_partners, LAMBDA p : p.close_number <= admitting_close_number)

\* existing_partners = [p for p in all_partners if p.close_number < admitting]
ExistingPartners(all_partners, admitting_close_number) ==
    SelectSeq(all_partners, LAMBDA p : p.close_number < admitting_close_number)

\* A plausible slip: the late interest of every close summed, whatever the
\* admitting close.
TotalLateInterest_all_closes(new_lps, admitting_close_number) ==
    DecSum([j \in DOMAIN new_lps |-> new_lps[j].total_late_interest_due])

\* sum(new_lp.total_late_interest_due for new_lp in new_lps
\*     if new_lp.close_number == admitting_close_number)
TotalLateInterest(new_lps, admitting_close_number) ==
    LET admitted == SelectSeq(new_lps, LAMBDA n : n.close_number = admitting_close_number)
    IN  DecSum([j \in DOMAIN admitted |-> admitted[j].total_late_interest_due])

\* The loop body shared by both variants: one ExistingLPAllocation for a
\* partner whose allocation basis is allocation_commitment.
BuildAllocation(a, partner, allocation_commitment, total_existing_commitment, total_late_interest, admitting_close_number) ==
    LET pro_rata_percentage == DecDiv(allocation_commitment, total_existing_commitment)
        allocation_amount ==
            round_amount(DecMul(total_late_interest, pro_rata_percentage),
                         a.calc_rounding)
    IN  [partner_name |-> partner.name,
         commitment |-> partner.commitment,
         close_number |-> partner.close_number,
         total_allocation |-> allocation_amount,
         allocation_by_admitting_close |-> (admitting_close_number :> allocation_amount)]

\* A plausible slip: a zero commitment base answered with an empty result.
calculate_allocations_unguarded(a, new_lps, all_partners, admitting_close_number) ==
    LET existing_partners == ExistingPartners(all_partners, admitting_close_number)
        total_late_interest == TotalLateInterest(new_lps, admitting_close_number)
        total_existing_commitment ==
            DecSum([i \in DOMAIN existing_partners |-> existing_partners[i].commitment])
    IN  IF existing_partners = <<>> THEN Returned(<<>>, DecZero)
        ELSE IF total_late_interest = DecZero THEN Returned(<<>>, DecZero)
        ELSE IF total_existing_commitment = DecZero THEN Returned(<<>>, DecZero)
        ELSE LET allocations ==
                     [i \in DOMAIN existing_partners |->
                         BuildAllocation(a, existing_partners[i],
                                         existing_partners[i].commitment,
                                         total_existing_commitment,
                                         total_late_interest,
                                         admitting_close_number)]
             IN  Returned(allocations,
                          round_amount(DecSum([i \in DOMAIN allocations |->
                                                  allocations[i].total_allocation]),
                                       a.sum_rounding))

\* calculate_allocations (variant A)
calculate_allocations(a, new_lps, all_partners, admitting_close_number) ==
    LET existing_partners == ExistingPartners(all_partners, admitting_close_number)
        total_late_interest == TotalLateInterest(new_lps, admitting_close_number)
        total_existing_commitment ==
            DecSum([i \in DOMAIN existing_partners |-> existing_partners[i].commitment])
    IN  IF existing_partners = <<>> THEN Returned(<<>>, DecZero)
        ELSE IF total_late_interest = DecZero THEN Returned(<<>>, DecZero)
        ELSE IF total_existing_commitment = DecZero THEN Raised(ZeroCommitmentError)
        ELSE LET allocations ==
                     [i \in DOMAIN existing_partners |->
                         BuildAllocation(a, existing_partners[i],
                                         existing_partners[i].commitment,
                                         total_existing_commitment,
                                         total_late_interest,
                                         admitting_close_number)]
             IN  Returned(allocations,
                          round_amount(DecSum([i \in DOMAIN allocations |->
                                                  allocations[i].total_allocation]),
                                       a.sum_rounding))

\* get_allocation_commitment: the mapped original commitment of a partner
\* named in commitment_increases, the partner's own commitment otherwise.
\* A plausible slip: the current commitment used for every partner.
get_allocation_commitment_current(commitment_increases, partner) ==
    partner.commitment

\* A plausible slip: commitment_increases.get(partner.name, Decimal('0')), a
\* partner the map does not name given no basis.
get_allocation_commitment_unnamed_as_zero(commitment_increases, partner) ==
    IF partner.name \in DOMAIN commitment_increases
    THEN commitment_increases[partner.name]
    ELSE DecZero

get_allocation_commitment(commitment_increases, partner) ==
    IF partner.name \in DOMAIN commitment_increases
    THEN commitment_increases[partner.name]
    ELSE partner.commitment

\* calculate_allocations_with_increases (variant B)
calculate_allocations_with_increases(a, new_lps, all_partners, commitment_increases, admitting_close_number) ==
    LET existing_partners == ExistingPartners(all_partners, admitting_close_number)
        total_late_interest == TotalLateInterest(new_lps, admitting_close_number)
        total_existing_commitment ==
            DecSum([i \in DOMAIN existing_partners |->
                       get_allocation_commitment(commitment_increases, existing_partners[i])])
    IN  IF existing_partners = <<>> THEN Returned(<<>>, DecZero)
        ELSE IF total_late_interest = DecZero THEN Returned(<<>>, DecZero)
        ELSE IF total_existing_commitment = DecZero THEN Raised(ZeroCommitmentError)
        ELSE LET allocations ==
                     [i \in DOMAIN existing_partners |->
                         BuildAllocation(a, existing_partners[i],
                                         get_allocation_commitment(commitment_increases,
                                                                   existing_partners[i]),
                                         total_existing_commitment,
                                         total_late_interest,
                                         admitting_close_number)]
             IN  Returned(allocations,
                          round_amount(DecSum([i \in DOMAIN allocations |->
                                                  allocations[i].total_allocation]),
                                       a.sum_rounding))

\* Position of partner_name among the keys of partner_allocations (a dict in
\* insertion order, modelled as a sequence of records), 0 when absent.
RECURSIVE IndexOfName(_, _, _)
IndexOfName(partner_allocations, partner_name, i) ==
    IF i > Len(partner_allocations) THEN 0
    ELSE IF partner_allocations[i].partner_name = partner_name THEN i
    ELSE IndexOfName(partner_allocations, partner_name, i + 1)

\* The (close_num, allocation) pairs in the order the nested loops visit them.
\* allocations_by_close is a dict in insertion order: a sequence of
\* [close_num, allocations] entries with distinct close_num.
RECURSIVE ItemsInOrder(_)
ItemsInOrder(allocations_by_close) ==
    IF allocations_by_close = <<>> THEN <<>>
    ELSE [k \in DOMAIN Head(allocations_by_close).allocations |->
             [close_num |-> Head(allocations_by_close).close_num,
              allocation |-> Head(allocations_by_close).allocations[k]]]
         \o ItemsInOrder(Tail(allocations_by_close))

\* A plausible slip: the per-close amount accumulated into the total twice
\* when the partner is first seen (total initialised from the allocation).
AggregateStep_init_from_first(partner_allocations, item) ==
    LET allocation == item.allocation
        idx == IndexOfName(partner_allocations, allocation.partner_name, 1)
        seen == IF idx = 0
                THEN Append(partner_allocations,
                            [partner_name |-> allocation.partner_name,
                             commitment |-> allocation.commitment,
                             close_number |-> allocation.close_number,
                             total_allocation |-> allocation.total_allocation,
                             allocation_by_admitting_close |-> <<>>])
                ELSE partner_allocations
        j == IF idx = 0 THEN Len(seen) ELSE idx
    IN  [seen EXCEPT
            ![j].total_allocation = DecAdd(@, allocation.total_allocation),
            ![j].allocation_by_admitting_close =
                (item.close_num :> allocation.total_allocation) @@ @]

\* One pass of the inner loop body of aggregate_allocations_across_closes.
AggregateStep(partner_allocations, item) ==
    LET allocation == item.allocation
        idx == IndexOfName(partner_allocations, allocation.partner_name, 1)
        seen == IF idx = 0
                THEN Append(partner_allocations,
                            [partner_name |-> allocation.partner_name,
                             commitment |-> allocation.commitment,
                             close_number |-> allocation.close_number,
                             total_allocation |-> DecZero,
                             allocation_by_admitting_close |-> <<>>])
                ELSE partner_allocations
        j == IF idx = 0 THEN Len(seen) ELSE idx
    IN  [seen EXCEPT
            ![j].total_allocation = DecAdd(@, allocation.total_allocation),
            ![j].allocation_by_admitting_close =
                (item.close_num :> allocation.total_allocation) @@ @]

RECURSIVE AggregateLoop(_, _)
AggregateLoop(items, partner_allocations) ==
    IF items = <<>> THEN partner_allocations
    ELSE AggregateLoop(Tail(items), AggregateStep(partner_allocations, Head(items)))

\* aggregate_allocations_across_closes
aggregate_allocations_across_closes(a, allocations_by_close) ==
    LET partner_allocations == AggregateLoop(ItemsInOrder(allocations_by_close), <<>>)
    IN  [k \in DOMAIN partner_allocations |->
            [partner_allocations[k] EXCEPT !.total_allocation =
                                               round_amount(@, a.sum_rounding)]]

-----------------------------------------------------------------------------
(* Optional[...] values: None is the empty sequence, a value v is <<v>>.   *)

\* No run_complete_calculation in progress
NoRun == [pc |-> "idle"]

None == <<>>
Some(v) == <<v>>

-----------------------------------------------------------------------------
(* InterestRateCalculator                                                  *)

Hundred == 100
DaysPerYear == 365

\* sorted(rate_history, key=lambda x: x.effective_date, reverse=True); the
\* sort is stable, so entries of one date keep their input order.
RECURSIVE SortByDateDesc(_)
SortByDateDesc(h) ==
    IF h = <<>> THEN <<>>
    ELSE LET rest == SortByDateDesc(SubSeq(h, 1, Len(h) - 1))
             x == h[Len(h)]
             k == Cardinality({i \in DOMAIN rest :
                                  rest[i].effective_date >= x.effective_date})
         IN  SubSeq(rest, 1, k) \o <<x>> \o SubSeq(rest, k + 1, Len(rest))

\* list.sort(key=lambda x: x.effective_date), stable
RECURSIVE SortByDateAsc(_)
SortByDateAsc(h) ==
    IF h = <<>> THEN <<>>
    ELSE LET rest == SortByDateAsc(SubSeq(h, 1, Len(h) - 1))
             x == h[Len(h)]
             k == Cardinality({i \in DOMAIN rest :
                                  rest[i].effective_date <= x.effective_date})
         IN  SubSeq(rest, 1, k) \o <<x>> \o SubSeq(rest, k + 1, Len(rest))

NoCalculator == [raised |-> "unbuilt"]

\* A plausible slip: the history kept in the order it was given.
NewInterestRateCalculator_unsorted(compounding, rate_history, spread, flat_rate) ==
    IF flat_rate # None
    THEN [raised |-> "none", compounding |-> compounding, is_flat_rate |-> TRUE,
          flat_rate |-> flat_rate[1], rate_history |-> <<>>, spread |-> DecZero]
    ELSE IF rate_history # None
    THEN [raised |-> "none", compounding |-> compounding, is_flat_rate |-> FALSE,
          flat_rate |-> DecZero,
          rate_history |-> rate_history[1],
          spread |-> IF spread = None THEN DecZero ELSE spread[1]]
    ELSE [raised |-> NoRateSourceError]

\* InterestRateCalculator.__init__
NewInterestRateCalculator(compounding, rate_history, spread, flat_rate) ==
    IF flat_rate # None
    THEN [raised |-> "none", compounding |-> compounding, is_flat_rate |-> TRUE,
          flat_rate |-> flat_rate[1], rate_history |-> <<>>, spread |-> DecZero]
    ELSE IF rate_history # None
    THEN [raised |-> "none", compounding |-> compounding, is_flat_rate |-> FALSE,
          flat_rate |-> DecZero,
          rate_history |-> SortByDateDesc(rate_history[1]),
          spread |-> IF spread = None THEN DecZero ELSE spread[1]]
    ELSE [raised |-> NoRateSourceError]

RateReturned(rate) == [raised |-> "none", rate |-> rate]
RateRaised(what) == [raised |-> what, rate |-> DecZero]

\* get_rate_at_date
get_rate_at_date(calc, target_date) ==
    IF calc.is_flat_rate THEN RateReturned(calc.flat_rate)
    ELSE LET applicable == {i \in DOMAIN calc.rate_history :
                               target_date >= calc.rate_history[i].effective_date}
         IN  IF applicable # {}
             THEN RateReturned(DecAdd(calc.rate_history[Kth(applicable, 1)].rate,
                                      calc.spread))
             ELSE IF calc.rate_history # <<>>
             THEN RateReturned(DecAdd(calc.rate_history[Len(calc.rate_history)].rate,
                                      calc.spread))
             ELSE RateRaised(NoRateHistoryError)

InterestReturned(interest, rate) ==
    [raised |-> "none", interest |-> interest, effective_rate |-> rate]
InterestRaised(what) ==
    [raised |-> what, interest |-> DecZero, effective_rate |-> DecZero]

\* principal * (rate / Decimal('100')) * (Decimal(days) / Decimal('365'))
SegmentInterest(principal, rate, days) ==
    DecMul(DecMul(principal, DecDiv(rate, DecInt(Hundred))),
           DecDiv(DecInt(days), DecInt(DaysPerYear)))

\* A plausible slip: the end day left out of the count.
InclusiveDays_exclusive(from_date, to_date) == to_date - from_date

\* (end_date - start_date).days + 1: inclusive day count
InclusiveDays(from_date, to_date) == (to_date - from_date) + 1

\* A plausible slip: a change on end_date itself left out (< for <=).
RateChangesInPeriod_open(calc, start_date, end_date) ==
    SortByDateAsc(SelectSeq(calc.rate_history,
                            LAMBDA rc : start_date < rc.effective_date
                                        /\ rc.effective_date < end_date))

\* rate_changes_in_period, sorted ascending
RateChangesInPeriod(calc, start_date, end_date) ==
    SortByDateAsc(SelectSeq(calc.rate_history,
                            LAMBDA rc : start_date < rc.effective_date
                                        /\ rc.effective_date <= end_date))

\* The loop over rate_changes_in_period: the interest accrued before the
\* last rate change, and the date of that change.
RECURSIVE SegmentLoop(_, _, _, _, _)
SegmentLoop(calc, principal, changes, current_date, total_interest) ==
    IF changes = <<>>
    THEN [current_date |-> current_date, total_interest |-> total_interest]
    ELSE LET rate_change == Head(changes)
             segment_days == rate_change.effective_date - current_date
             rate == get_rate_at_date(calc, current_date).rate
         IN  SegmentLoop(calc, principal, Tail(changes),
                         rate_change.effective_date,
                         IF segment_days > 0
                         THEN DecAdd(total_interest,
                                     SegmentInterest(principal, rate, segment_days))
                         ELSE total_interest)

\* _calculate_simple_interest
calculate_simple_interest(calc, principal, start_date, end_date) ==
    LET total_days == InclusiveDays(start_date, end_date) IN
    IF total_days <= 0 THEN InterestReturned(DecZero, DecZero)
    ELSE IF calc.is_flat_rate
    THEN InterestReturned(SegmentInterest(principal, calc.flat_rate, total_days),
                          calc.flat_rate)
    ELSE LET loop == SegmentLoop(calc, principal,
                                 RateChangesInPeriod(calc, start_date, end_date),
                                 start_date, DecZero)
             final_days == InclusiveDays(loop.current_date, end_date)
             final_rate == get_rate_at_date(calc, loop.current_date)
             total_interest ==
                 IF final_days > 0
                 THEN DecAdd(loop.total_interest,
                             SegmentInterest(principal, final_rate.rate, final_days))
                 ELSE loop.total_interest
         IN  IF final_days > 0 /\ final_rate.raised # "none"
             THEN InterestRaised(final_rate.raised)
             \* total_interest / principal: Decimal raises on 0 / 0
             ELSE IF principal = DecZero THEN InterestRaised("InvalidOperation")
             ELSE InterestReturned(
                      total_interest,
                      DecMul(DecMul(DecDiv(total_interest, principal),
                                    DecDiv(DecInt(DaysPerYear), DecInt(total_days))),
                             DecInt(Hundred)))

\* calculate_interest with the range check rejecting end_date = start_date too
\* (the wording of its message); the code compares with <.
calculate_interest_rejects_equal_dates(calc, principal, start_date, end_date) ==
    IF end_date <= start_date THEN InterestRaised(InvalidRangeError)
    ELSE IF calc.compounding = "simple"
    THEN calculate_simple_interest(calc, principal, start_date, end_date)
    ELSE InterestRaised("compound: not modelled")

\* calculate_interest.  Every configuration of the model compounds SIMPLE;
\* the compound branch (Decimal ** with a fractional exponent) is not
\* modelled and is marked as such.
calculate_interest(calc, principal, start_date, end_date) ==
    IF end_date < start_date THEN InterestRaised(InvalidRangeError)
    ELSE IF calc.compounding = "simple"
    THEN calculate_simple_interest(calc, principal, start_date, end_date)
    ELSE InterestRaised("compound: not modelled")

-----------------------------------------------------------------------------
(* LateInterestCalculator                                                  *)

\* LateInterestCalculator.__init__: the rate calculator for the fund settings
NewRateCalculatorFor(a) ==
    IF a.late_interest_base = "prime"
    THEN NewInterestRateCalculator(a.late_interest_compounding,
                                   Some(a.prime_rate_history), Some(a.late_spread), None)
    ELSE NewInterestRateCalculator(a.late_interest_compounding, None, None, a.flat_rate)

\* CapitalCall.get_call_amount
get_call_amount(call, commitment) ==
    DecMul(commitment, DecDiv(call.call_percentage, DecInt(Hundred)))

LateInterestDetail(call, capital_amount, late_interest, days_late, effective_rate) ==
    [call_number |-> call.call_number,
     due_date |-> call.due_date,
     call_percentage |-> call.call_percentage,
     capital_amount |-> capital_amount,
     late_interest |-> late_interest,
     days_late |-> days_late,
     effective_rate |-> effective_rate]

\* A plausible slip: the policy not looked at, the accrual always running to
\* the issue date.
EndDateFor_policy_ignored(a, new_lp, call) == new_lp.issue_date

\* end_date of the accrual for one call, by the end-date policy
EndDateFor(a, new_lp, call) ==
    IF a.end_date_calculation = "issue_date" THEN new_lp.issue_date ELSE call.due_date

\* A plausible slip: the accrual invoked before the day count is looked at.
LateInterestForCallRaises_always_invoked(a, calc, new_lp, call) ==
    calculate_interest(calc, get_call_amount(call, new_lp.commitment),
                       call.due_date, EndDateFor(a, new_lp, call)).raised

\* The exception _calculate_late_interest_for_call lets through, "none" when
\* it returns: the accrual is only invoked when days_late > 0.
LateInterestForCallRaises(a, calc, new_lp, call) ==
    LET end_date == EndDateFor(a, new_lp, call) IN
    IF end_date - call.due_date <= 0 THEN "none"
    ELSE calculate_interest(calc, get_call_amount(call, new_lp.commitment),
                            call.due_date, end_date).raised

\* A plausible slip: the late interest of a line item left unrounded.
calculate_late_interest_for_call_unrounded(a, calc, new_lp, call) ==
    LET capital_amount == get_call_amount(call, new_lp.commitment)
        end_date == EndDateFor(a, new_lp, call)
        days_late == end_date - call.due_date
        accrued == calculate_interest(calc, capital_amount, call.due_date, end_date)
    IN  IF days_late <= 0
        THEN LateInterestDetail(call, capital_amount, DecZero, 0, DecZero)
        ELSE LateInterestDetail(call,
                                round_amount(capital_amount, a.calc_rounding),
                                accrued.interest,
                                days_late,
                                round_amount(accrued.effective_rate, a.calc_rounding))

\* _calculate_late_interest_for_call, when it returns
calculate_late_interest_for_call(a, calc, new_lp, call) ==
    LET capital_amount == get_call_amount(call, new_lp.commitment)
        end_date == EndDateFor(a, new_lp, call)
        days_late == end_date - call.due_date
        accrued == calculate_interest(calc, capital_amount, call.due_date, end_date)
    IN  IF days_late <= 0
        THEN LateInterestDetail(call, capital_amount, DecZero, 0, DecZero)
        ELSE LateInterestDetail(call,
                                round_amount(capital_amount, a.calc_rounding),
                                round_amount(accrued.interest, a.calc_rounding),
                                days_late,
                                round_amount(accrued.effective_rate, a.calc_rounding))

\* list.sort(key=lambda x: x.call_number), stable
RECURSIVE SortByCallNumber(_)
SortByCallNumber(calls) ==
    IF calls = <<>> THEN <<>>
    ELSE LET rest == SortByCallNumber(SubSeq(calls, 1, Len(calls) - 1))
             x == calls[Len(calls)]
             k == Cardinality({i \in DOMAIN rest : rest[i].call_number <= x.call_number})
         IN  SubSeq(rest, 1, k) \o <<x>> \o SubSeq(rest, k + 1, Len(rest))

\* A plausible slip: <= for <, a call due on the issue date counted as missed.
MissedCalls_inclusive(new_lp, capital_calls) ==
    SortByCallNumber(SelectSeq(capital_calls,
                               LAMBDA call : call.due_date <= new_lp.issue_date))

\* A plausible slip: the missed calls left in the order they were given.
MissedCalls_unsorted(new_lp, capital_calls) ==
    SelectSeq(capital_calls, LAMBDA call : call.due_date < new_lp.issue_date)

\* missed_calls, filtered and sorted by call number
MissedCalls(new_lp, capital_calls) ==
    SortByCallNumber(SelectSeq(capital_calls,
                               LAMBDA call : call.due_date < new_lp.issue_date))

NewLPRaised(what, new_lp) ==
    [raised |-> what,
     partner_name |-> new_lp.name,
     issue_date |-> new_lp.issue_date,
     commitment |-> new_lp.commitment,
     close_number |-> new_lp.close_number,
     total_catch_up |-> DecZero,
     total_late_interest_due |-> DecZero,
     breakdown_by_capital_call |-> <<>>]

\* calculate_late_interest_for_new_lp
calculate_late_interest_for_new_lp(a, calc, new_lp, capital_calls) ==
    LET missed_calls == MissedCalls(new_lp, capital_calls)
        failing == {i \in DOMAIN missed_calls :
                       LateInterestForCallRaises(a, calc, new_lp, missed_calls[i]) # "none"}
        breakdown == [i \in DOMAIN missed_calls |->
                         calculate_late_interest_for_call(a, calc, new_lp, missed_calls[i])]
    IN  IF failing # {}
        THEN NewLPRaised(LateInterestForCallRaises(a, calc, new_lp,
                                                   missed_calls[Kth(failing, 1)]),
                         new_lp)
        ELSE [raised |-> "none",
              partner_name |-> new_lp.name,
              issue_date |-> new_lp.issue_date,
              commitment |-> new_lp.commitment,
              close_number |-> new_lp.close_number,
              total_catch_up |->
                  round_amount(DecSum([i \in DOMAIN breakdown |->
                                          breakdown[i].capital_amount]),
                               a.sum_rounding),
              total_late_interest_due |->
                  round_amount(DecSum([i \in DOMAIN breakdown |->
                                          breakdown[i].late_interest]),
                               a.sum_rounding),
              breakdown_by_capital_call |-> breakdown]

-----------------------------------------------------------------------------
(* Input domains                                                           *)

Names == {"A", "B"}
Cent == <<1, 100>>

\* FundAssumptions; the fields no calculator reads (fund_name and the two
\* management-fee flags) are left out.
FundAssumptions(compounding, base, spread, end_date, calc, sum, history, flat) ==
    [late_interest_compounding |-> compounding,
     late_interest_base |-> base,
     late_spread |-> spread,
     end_date_calculation |-> end_date,
     calc_rounding |-> calc,
     sum_rounding |-> sum,
     prime_rate_history |-> history,
     flat_rate |-> flat]

Partner(name, issue_date, commitment, close_number) ==
    [name |-> name, issue_date |-> issue_date,
     commitment |-> commitment, close_number |-> close_number]

\* (calc_rounding, sum_rounding) pairs
Roundings == {<<2, 2>>, <<2, 1>>}

AllocAssumptions ==
    {FundAssumptions("simple", "flat", DecZero, "issue_date", r[1], r[2], <<>>, Some(DecInt(10)))
        : r \in Roundings}

AllocPartners ==
    {Partner(n, 1, DecInt(c), k) : n \in Names, c \in {0, 1, 2}, k \in {1, 2}}

\* A NewLPCalculation as the allocators read it
NewLPCalc(close_number, due) ==
    [partner_name |-> "N", close_number |-> close_number,
     total_late_interest_due |-> due]

AllocNewLps ==
    {NewLPCalc(2, DecZero), NewLPCalc(2, Cent), NewLPCalc(3, DecMul(DecInt(3), Cent))}

AdmittingCloses == {2, 3}

\* commitment_increases dicts: partner name -> original commitment
CommitmentIncreases ==
    {<<>>, "A" :> DecInt(1), "A" :> DecInt(0)}

-----------------------------------------------------------------------------
(* Calls of the allocation calculator                                      *)

InitAlloc ==
    /\ assumptions \in AllocAssumptions
    /\ rate_calculator = NoCalculator
    /\ op = "none"
    /\ args = <<>>
    /\ ret = <<>>
    /\ run = NoRun

CallCalculateAllocations ==
    /\ op = "none"
    /\ \E new_lps \in SeqUpTo(AllocNewLps, MaxNewLps),
          all_partners \in SeqUpTo(AllocPartners, MaxPartners),
          admitting_close_number \in AdmittingCloses :
          /\ op' = "calculate_allocations"
          /\ args' = [new_lps |-> new_lps, all_partners |-> all_partners,
                      admitting_close_number |-> admitting_close_number]
          /\ ret' = calculate_allocations(assumptions, new_lps, all_partners,
                                          admitting_close_number)
    /\ UNCHANGED <<calc_vars, run>>

CallCalculateAllocationsWithIncreases ==
    /\ op = "none"
    /\ \E new_lps \in SeqUpTo(AllocNewLps, MaxNewLps),
          all_partners \in SeqUpTo(AllocPartners, MaxPartners),
          commitment_increases \in CommitmentIncreases,
          admitting_close_number \in AdmittingCloses :
          /\ op' = "calculate_allocations_with_increases"
          /\ args' = [new_lps |-> new_lps, all_partners |-> all_partners,
                      commitment_increases |-> commitment_increases,
                      admitting_close_number |-> admitting_close_number]
          /\ ret' = calculate_allocations_with_increases(assumptions, new_lps,
                        all_partners, commitment_increases, admitting_close_number)
    /\ UNCHANGED <<calc_vars, run>>

\* Per-close allocation lists as calculate_allocations returns them
AggAllocations(close_num) ==
    {[partner_name |-> n, commitment |-> DecInt(1), close_number |-> 1,
      total_allocation |-> amt,
      allocation_by_admitting_close |-> (close_num :> amt)]
        : n \in Names, amt \in {Cent, DecMul(DecInt(4), Cent)}}

AggEntries(close_num) ==
    {[close_num |-> close_num, allocations |-> l]
        : l \in SeqUpTo(AggAllocations(close_num), MaxPartners)}

\* allocations_by_close dicts: keys are distinct, in any insertion order
AllocationsByClose ==
    {<<>>}
    \cup {<<e>> : e \in AggEntries(2) \cup AggEntries(3)}
    \cup {<<e, f>> : e \in AggEntries(2), f \in AggEntries(3)}
    \cup {<<f, e>> : e \in AggEntries(2), f \in AggEntries(3)}

CallAggregateAllocationsAcrossCloses ==
    /\ op = "none"
    /\ \E allocations_by_close \in AllocationsByClose :
          /\ op' = "aggregate_allocations_across_closes"
          /\ args' = [allocations_by_close |-> allocations_by_close]
          /\ ret' = aggregate_allocations_across_closes(assumptions,
                                                       allocations_by_close)
    /\ UNCHANGED <<calc_vars, run>>

NextAlloc ==
    \/ CallCalculateAllocations
    \/ CallCalculateAllocationsWithIncreases
    \/ CallAggregateAllocationsAcrossCloses

SpecAlloc == InitAlloc /\ [][NextAlloc]_vars

-----------------------------------------------------------------------------
(* Properties of the allocation calculator                                 *)

\* Sum of the Decimals f[i] over the index set I, in no particular order
RECURSIVE SumAt(_, _)
SumAt(f, I) ==
    IF I = {} THEN DecZero
    ELSE LET i == CHOOSE x \in I : TRUE IN DecAdd(f[i], SumAt(f, I \ {i}))

\* Positions of the existing partners and of the new-LP calculations of the
\* admitting close in the arguments of the allocation call under way.
ExistingIdx ==
    {i \in DOMAIN args.all_partners :
        args.all_partners[i].close_number < args.admitting_close_number}
AdmittedIdx ==
    {j \in DOMAIN args.new_lps :
        args.new_lps[j].close_number = args.admitting_close_number}
LateInterestToAllocate ==
    SumAt([j \in DOMAIN args.new_lps |-> args.new_lps[j].total_late_interest_due],
          AdmittedIdx)

\* The allocation basis the claims give partner i: its own commitment
\* (variant A), or the mapped original commitment when it is named (variant B).
OwnBasis == [i \in DOMAIN args.all_partners |-> args.all_partners[i].commitment]
IncreaseBasis ==
    [i \in DOMAIN args.all_partners |->
        IF args.all_partners[i].name \in DOMAIN args.commitment_increases
        THEN args.commitment_increases[args.all_partners[i].name]
        ELSE args.all_partners[i].commitment]

\* ret holds one allocation per existing partner, in order, each of
\* round(total * basis / sum of bases, calc_rounding), and their rounded sum.
ProRataResult(basis) ==
    LET total == LateInterestToAllocate
        base == SumAt(basis, ExistingIdx)
        share(i) == round_amount(DecDiv(DecMul(total, basis[i]), base),
                                 assumptions.calc_rounding)
    IN  /\ ret.raised = "none"
        /\ Len(ret.allocations) = Cardinality(ExistingIdx)
        /\ \A k \in 1..Len(ret.allocations) :
              LET i == Kth(ExistingIdx, k) IN
              /\ ret.allocations[k].partner_name = args.all_partners[i].name
              /\ ret.allocations[k].close_number = args.all_partners[i].close_number
              /\ ret.allocations[k].total_allocation = share(i)
        /\ ret.total_allocated =
              round_amount(SumAt([i \in DOMAIN args.all_partners |-> share(i)],
                                 ExistingIdx),
                           assumptions.sum_rounding)

\* C1: variant A, given at least one existing partner, a nonzero late interest
\* at the admitting close and a nonzero total existing commitment, returns
\* exactly one allocation per existing partner, of
\* round(total_late_interest * commitment / total existing commitment,
\* calc_rounding), and total_allocated is the sum of those rounded amounts
\* rounded to sum_rounding.
C1_VariantAProRata ==
    (/\ op = "calculate_allocations"
     /\ ExistingIdx # {}
     /\ LateInterestToAllocate # DecZero
     /\ SumAt(OwnBasis, ExistingIdx) # DecZero)
    => ProRataResult(OwnBasis)

\* Two existing partners with commitments 1 and 2 share 0.01: the shares
\* round to 0.00 and 0.01.
C1_Witness ==
    /\ op = "calculate_allocations"
    /\ Cardinality(ExistingIdx) = 2
    /\ LateInterestToAllocate = Cent
    /\ Len(ret.allocations) = 2
    /\ ret.allocations[1].total_allocation = DecZero
    /\ ret.allocations[2].total_allocation = Cent
    /\ Len(args.all_partners) = 2
    /\ Len(args.new_lps) = 2

\* C2: variant B takes the mapped original commitment as the allocation
\* basis (numerator and denominator) of every existing partner named in
\* commitment_increases and the partner's own commitment for the others;
\* the commitment field of every allocation is the partner record's current
\* commitment.
C2_VariantBOriginalBasis ==
    (/\ op = "calculate_allocations_with_increases"
     /\ ExistingIdx # {}
     /\ LateInterestToAllocate # DecZero
     /\ SumAt(IncreaseBasis, ExistingIdx) # DecZero)
    => /\ ProRataResult(IncreaseBasis)
       /\ \A k \in 1..Len(ret.allocations) :
             ret.allocations[k].commitment =
                 args.all_partners[Kth(ExistingIdx, k)].commitment

\* A (commitment 2, original 1) and B (commitment 2, not named) share 0.03:
\* A receives 0.01 on its original commitment and still shows commitment 2.
C2_Witness ==
    /\ op = "calculate_allocations_with_increases"
    /\ args.commitment_increases = ("A" :> DecInt(1))
    /\ Len(ret.allocations) = 2
    /\ ret.allocations[1].partner_name = "A"
    /\ ret.allocations[1].commitment = DecInt(2)
    /\ ret.allocations[1].total_allocation = Cent
    /\ ret.allocations[2].partner_name = "B"
    /\ ret.allocations[2].commitment = DecInt(2)
    /\ ret.allocations[2].total_allocation = DecMul(DecInt(2), Cent)

\* Positions <<entry, index>> of the allocations given to the aggregation
\* under way, and the partner name, close and amount at each.
AggPositions ==
    {pos \in (DOMAIN args.allocations_by_close) \X (1..MaxPartners) :
        pos[2] \in DOMAIN args.allocations_by_close[pos[1]].allocations}
AggNameAt(pos) == args.allocations_by_close[pos[1]].allocations[pos[2]].partner_name
AggCloseAt(pos) == args.allocations_by_close[pos[1]].close_num
AggAmountAt(pos) ==
    args.allocations_by_close[pos[1]].allocations[pos[2]].total_allocation
AggPositionsOf(name) == {pos \in AggPositions : AggNameAt(pos) = name}

\* Partner names are unique within a run (data model), so no close's
\* allocation list names a partner twice.
AggNamesUniquePerClose ==
    \A pos \in AggPositions, qos \in AggPositions :
        (pos[1] = qos[1] /\ AggNameAt(pos) = AggNameAt(qos)) => pos = qos

\* C3: aggregate_allocations_across_closes returns exactly one record per
\* distinct partner name of its input; the record's total_allocation is the
\* sum of the partner's per-close allocations rounded to sum_rounding, and
\* its allocation_by_admitting_close maps exactly the closes at which the
\* partner received an allocation, each to the amount received there.
C3_AggregateAcrossCloses ==
    (op = "aggregate_allocations_across_closes" /\ AggNamesUniquePerClose)
    => /\ {ret[k].partner_name : k \in DOMAIN ret} = {AggNameAt(pos) : pos \in AggPositions}
       /\ \A k \in DOMAIN ret, l \in DOMAIN ret :
             ret[k].partner_name = ret[l].partner_name => k = l
       /\ \A k \in DOMAIN ret :
             LET mine == AggPositionsOf(ret[k].partner_name) IN
             /\ ret[k].total_allocation =
                   round_amount(SumAt([pos \in AggPositions |-> AggAmountAt(pos)], mine),
                                assumptions.sum_rounding)
             /\ DOMAIN ret[k].allocation_by_admitting_close =
                   {AggCloseAt(pos) : pos \in mine}
             /\ \A pos \in mine :
                   ret[k].allocation_by_admitting_close[AggCloseAt(pos)] = AggAmountAt(pos)

\* A received 0.01 at close 3 and 0.04 at close 2, B 0.04 at close 2 only:
\* with sum_rounding 1, A's total 0.05 rounds to 0.0 and B's 0.04 to 0.0.
C3_Witness ==
    /\ op = "aggregate_allocations_across_closes"
    /\ AggNamesUniquePerClose
    /\ assumptions.sum_rounding = 1
    /\ Len(args.allocations_by_close) = 2
    /\ args.allocations_by_close[1].close_num = 3
    /\ Len(ret) = 2
    /\ ret[1].partner_name = "A"
    /\ ret[1].allocation_by_admitting_close = (2 :> DecMul(DecInt(4), Cent)) @@ (3 :> Cent)
    /\ ret[1].total_allocation = DecZero
    /\ ret[2].partner_name = "B"
    /\ DOMAIN ret[2].allocation_by_admitting_close = {2}

-----------------------------------------------------------------------------
(* Calls of the interest rate calculator                                   *)

Days == 0..MaxDay

PrimeRateChange(effective_date, rate) == [effective_date |-> effective_date, rate |-> rate]

RateChanges == {PrimeRateChange(d, DecInt(r)) : d \in Days, r \in {5, 10}}

RateHistories == SeqUpTo(RateChanges, MaxHistory)

FlatRates == {DecInt(10), Dec(37, 4)}
Spreads == {DecZero, DecInt(2)}
Principals == {DecZero, DecInt(1000)}

RateAssumptions ==
    {FundAssumptions("simple", "flat", DecZero, "issue_date", 2, 2, <<>>, Some(f))
        : f \in FlatRates}
    \cup {FundAssumptions("simple", "prime", sp, "issue_date", 2, 2, h, None)
            : sp \in Spreads, h \in RateHistories}

InitRate ==
    /\ assumptions \in RateAssumptions
    /\ rate_calculator = NewRateCalculatorFor(assumptions)
    /\ rate_calculator.raised = "none"
    /\ op = "none"
    /\ args = <<>>
    /\ ret = <<>>
    /\ run = NoRun

CallGetRateAtDate ==
    /\ op = "none"
    /\ \E target_date \in Days :
          /\ op' = "get_rate_at_date"
          /\ args' = [target_date |-> target_date]
          /\ ret' = get_rate_at_date(rate_calculator, target_date)
    /\ UNCHANGED <<calc_vars, run>>

CallCalculateInterest ==
    /\ op = "none"
    /\ \E principal \in Principals, start_date \in Days, end_date \in Days :
          /\ op' = "calculate_interest"
          /\ args' = [principal |-> principal, start_date |-> start_date,
                      end_date |-> end_date]
          /\ ret' = calculate_interest(rate_calculator, principal, start_date, end_date)
    /\ UNCHANGED <<calc_vars, run>>

NextRate ==
    \/ CallGetRateAtDate
    \/ CallCalculateInterest

SpecRate == InitRate /\ [][NextRate]_vars

-----------------------------------------------------------------------------
(* Properties of the interest rate calculator                              *)

\* C4: at a flat rate, for end_date >= start_date, calculate_interest
\* returns principal * (rate/100) * (days/365) with the inclusive day count
\* days = (end_date - start_date).days + 1, and the flat rate as the
\* effective rate.
C4_FlatSimpleInterest ==
    (/\ op = "calculate_interest"
     /\ assumptions.late_interest_base = "flat"
     /\ args.end_date >= args.start_date)
    => LET rate == assumptions.flat_rate[1]
           days == args.end_date - args.start_date + 1
       IN  /\ ret.raised = "none"
           /\ ret.interest = Dec(args.principal[1] * rate[1] * days,
                                 args.principal[2] * rate[2] * 36500)
           /\ ret.effective_rate = rate

\* 1000 at 9.25% over days 1..3 (3 days inclusive): 1000 * 0.0925 * 3/365
C4_Witness ==
    /\ op = "calculate_interest"
    /\ assumptions.late_interest_base = "flat"
    /\ assumptions.flat_rate = Some(Dec(37, 4))
    /\ args.principal = DecInt(1000)
    /\ args.start_date = 1
    /\ args.end_date = 3
    /\ ret.raised = "none"
    /\ ret.interest = Dec(111, 146)
    /\ ret.effective_rate = Dec(37, 4)

\* The rate-change dates that cut the interval of the accrual under way,
\* the segment starts they give, and the days each segment accrues: up to
\* the next boundary (exclusive), or through end_date (inclusive) for the
\* last segment.
Boundaries ==
    {d \in Days : /\ \E i \in DOMAIN assumptions.prime_rate_history :
                        assumptions.prime_rate_history[i].effective_date = d
                  /\ args.start_date < d
                  /\ d <= args.end_date}
SegmentStarts == {args.start_date} \cup Boundaries
SegmentDays(s) ==
    LET later == {b \in Boundaries : b > s}
    IN  IF later = {} THEN args.end_date - s + 1
        ELSE (CHOOSE b \in later : \A c \in later : b <= c) - s
SegmentAccrual(s) ==
    LET rate == get_rate_at_date(rate_calculator, s).rate
    IN  Dec(args.principal[1] * rate[1] * SegmentDays(s),
            args.principal[2] * rate[2] * 36500)

\* C5: at a variable rate the interval is cut at exactly the rate-change
\* dates d with start_date < d <= end_date; every segment before a boundary
\* accrues principal * rate/100 * (boundary - segment_start)/365 at the rate
\* effective on its first day, the final segment accrues over
\* (end_date - segment_start) + 1 days, and the interest returned is the sum
\* of the segment interests.
C5_VariableSimpleInterest ==
    (/\ op = "calculate_interest"
     /\ assumptions.late_interest_base = "prime"
     /\ assumptions.prime_rate_history # <<>>
     /\ args.principal # DecZero
     /\ args.end_date >= args.start_date)
    => /\ ret.raised = "none"
       /\ ret.interest = SumAt([s \in SegmentStarts |-> SegmentAccrual(s)], SegmentStarts)

\* 1000 from day 0 through day 3, prime 5% from day 0, 10% from day 1 and
\* 5% from day 3 (given out of order), spread 2: 1 day at 7%, 2 days at 12%
\* and the last day at 7%, 380/365 in all.
C5_Witness ==
    /\ op = "calculate_interest"
    /\ assumptions.late_interest_base = "prime"
    /\ assumptions.late_spread = DecInt(2)
    /\ assumptions.prime_rate_history =
           <<PrimeRateChange(3, DecInt(5)), PrimeRateChange(0, DecInt(5)),
             PrimeRateChange(1, DecInt(10))>>
    /\ args.principal = DecInt(1000)
    /\ args.start_date = 0
    /\ args.end_date = 3
    /\ Boundaries = {1, 3}
    /\ ret.raised = "none"
    /\ ret.interest = Dec(380, 365)

\* C6: in variable mode with a non-empty history given in any order,
\* get_rate_at_date returns the rate of the entry with the greatest
\* effective_date <= target date plus the spread, and the rate of the entry
\* with the smallest effective_date plus the spread when the target date
\* precedes every entry.
C6_RateAtDate ==
    (/\ op = "get_rate_at_date"
     /\ assumptions.late_interest_base = "prime"
     /\ assumptions.prime_rate_history # <<>>)
    => LET h == assumptions.prime_rate_history
           reached == {i \in DOMAIN h : h[i].effective_date <= args.target_date}
           latest == {i \in reached :
                         \A j \in reached : h[j].effective_date <= h[i].effective_date}
           earliest == {i \in DOMAIN h :
                           \A j \in DOMAIN h : h[i].effective_date <= h[j].effective_date}
       IN  /\ ret.raised = "none"
           /\ \E i \in (IF reached # {} THEN latest ELSE earliest) :
                 ret.rate = DecAdd(h[i].rate, assumptions.late_spread)

\* History given as day 1: 5%, day 3: 5%, day 2: 10%; on day 2 the rate is
\* 10% + spread 2.
C6_Witness ==
    /\ op = "get_rate_at_date"
    /\ assumptions.late_interest_base = "prime"
    /\ assumptions.late_spread = DecInt(2)
    /\ assumptions.prime_rate_history =
           <<PrimeRateChange(1, DecInt(5)), PrimeRateChange(3, DecInt(5)),
             PrimeRateChange(2, DecInt(10))>>
    /\ args.target_date = 2
    /\ ret = RateReturned(DecInt(12))

\* The target date precedes every entry: the oldest entry's rate applies.
C6_WitnessBeforeHistory ==
    /\ op = "get_rate_at_date"
    /\ assumptions.late_interest_base = "prime"
    /\ assumptions.prime_rate_history =
           <<PrimeRateChange(3, DecInt(5)), PrimeRateChange(1, DecInt(10))>>
    /\ args.target_date = 0
    /\ ret = RateReturned(DecAdd(DecInt(10), assumptions.late_spread))

-----------------------------------------------------------------------------
(* Calls of the late interest calculator                                   *)

CapitalCall(call_number, due_date, call_percentage) ==
    [call_number |-> call_number, due_date |-> due_date,
     call_percentage |-> call_percentage]

CapitalCalls ==
    {CapitalCall(n, d, DecInt(pct)) : n \in {1, 2}, d \in Days, pct \in {0, 50}}

LatePartners == {Partner("N", d, DecInt(1000), 2) : d \in Days}

EndDatePolicies == {"issue_date", "due_date"}

LateAssumptions ==
    {FundAssumptions("simple", "flat", DecZero, "issue_date", r[1], r[2], <<>>,
                     Some(DecInt(10))) : r \in Roundings}
    \cup {FundAssumptions("simple", "flat", DecZero, "due_date", 2, 2, <<>>,
                          Some(DecInt(10)))}
    \cup {FundAssumptions("simple", "prime", DecInt(2), "issue_date", 2, 2, h, None)
            : h \in {<<>>, <<PrimeRateChange(2, DecInt(10)),
                             PrimeRateChange(0, DecInt(5))>>}}

InitLate ==
    /\ assumptions \in LateAssumptions
    /\ rate_calculator = NewRateCalculatorFor(assumptions)
    /\ rate_calculator.raised = "none"
    /\ op = "none"
    /\ args = <<>>
    /\ ret = <<>>
    /\ run = NoRun

CallCalculateLateInterestForNewLp ==
    /\ op = "none"
    /\ \E new_lp \in LatePartners, capital_calls \in SeqUpTo(CapitalCalls, MaxCalls) :
          /\ op' = "calculate_late_interest_for_new_lp"
          /\ args' = [new_lp |-> new_lp, capital_calls |-> capital_calls]
          /\ ret' = calculate_late_interest_for_new_lp(assumptions, rate_calculator,
                                                       new_lp, capital_calls)
    /\ UNCHANGED <<calc_vars, run>>

\* _calculate_late_interest_for_call called on its own, for any call and LP
CallCalculateLateInterestForCall ==
    /\ op = "none"
    /\ \E new_lp \in LatePartners, call \in CapitalCalls :
          /\ op' = "_calculate_late_interest_for_call"
          /\ args' = [new_lp |-> new_lp, call |-> call]
          /\ ret' = IF LateInterestForCallRaises(assumptions, rate_calculator,
                                                new_lp, call) # "none"
                    THEN [raised |-> LateInterestForCallRaises(assumptions,
                                         rate_calculator, new_lp, call)]
                    ELSE [raised |-> "none",
                          detail |-> calculate_late_interest_for_call(
                                         assumptions, rate_calculator, new_lp, call)]
    /\ UNCHANGED <<calc_vars, run>>

NextLate ==
    \/ CallCalculateLateInterestForNewLp
    \/ CallCalculateLateInterestForCall

SpecLate == InitLate /\ [][NextLate]_vars

-----------------------------------------------------------------------------
(* Properties of the late interest calculator                              *)

\* Positions of the capital calls due strictly before the new LP's issue date
MissedIdx ==
    {i \in DOMAIN args.capital_calls :
        args.capital_calls[i].due_date < args.new_lp.issue_date}

SameCall(detail, call) ==
    /\ detail.call_number = call.call_number
    /\ detail.due_date = call.due_date
    /\ detail.call_percentage = call.call_percentage

\* C7: the breakdown holds exactly one detail for each capital call due
\* strictly before the new LP's issue date and none for any other call, in
\* ascending call_number order whatever the order of the input list and of
\* the due dates.
C7_MissedCallsByCallNumber ==
    (op = "calculate_late_interest_for_new_lp" /\ ret.raised = "none")
    => LET breakdown == ret.breakdown_by_capital_call IN
       /\ Len(breakdown) = Cardinality(MissedIdx)
       /\ \A call \in CapitalCalls :
             Cardinality({k \in DOMAIN breakdown : SameCall(breakdown[k], call)})
                 = Cardinality({i \in MissedIdx : args.capital_calls[i] = call})
       /\ \A k \in DOMAIN breakdown, l \in DOMAIN breakdown :
             k < l => breakdown[k].call_number <= breakdown[l].call_number

\* Call 2 (due day 0) is given before call 1 (due day 1); the LP is issued on
\* day 2: the breakdown lists call 1, then call 2.
C7_Witness ==
    /\ op = "calculate_late_interest_for_new_lp"
    /\ ret.raised = "none"
    /\ args.new_lp.issue_date = 2
    /\ Len(args.capital_calls) = 2
    /\ args.capital_calls[1].call_number = 2
    /\ args.capital_calls[1].due_date = 0
    /\ args.capital_calls[2].call_number = 1
    /\ args.capital_calls[2].due_date = 1
    /\ Len(ret.breakdown_by_capital_call) = 2
    /\ ret.breakdown_by_capital_call[1].call_number = 1
    /\ ret.breakdown_by_capital_call[1].due_date = 1
    /\ ret.breakdown_by_capital_call[2].call_number = 2

\* A call due on the issue date itself is left out of the breakdown.
C7_WitnessDueOnIssueDate ==
    /\ op = "calculate_late_interest_for_new_lp"
    /\ ret.raised = "none"
    /\ Len(args.capital_calls) = 2
    /\ args.capital_calls[1].due_date = args.new_lp.issue_date
    /\ args.capital_calls[2].due_date < args.new_lp.issue_date
    /\ Len(ret.breakdown_by_capital_call) = 1

\* What one missed call accrues before any rounding
UnroundedLateInterest(call) ==
    LET end_date == EndDateFor(assumptions, args.new_lp, call) IN
    IF end_date - call.due_date <= 0 THEN DecZero
    ELSE calculate_interest(rate_calculator,
                            get_call_amount(call, args.new_lp.commitment),
                            call.due_date, end_date).interest

\* C8: total_late_interest_due is the sum of the per-call late_interest
\* values, each already rounded to calc_rounding, rounded to sum_rounding,
\* and total_catch_up is the sum of the per-call capital_amount values
\* rounded to sum_rounding: a sum of rounded line items.
C8_TotalsSumRoundedLineItems ==
    (op = "calculate_late_interest_for_new_lp" /\ ret.raised = "none")
    => LET breakdown == ret.breakdown_by_capital_call IN
       /\ \A k \in DOMAIN breakdown :
             breakdown[k].late_interest =
                 round_amount(breakdown[k].late_interest, assumptions.calc_rounding)
       /\ ret.total_late_interest_due =
             round_amount(SumAt([k \in DOMAIN breakdown |-> breakdown[k].late_interest],
                                DOMAIN breakdown),
                          assumptions.sum_rounding)
       /\ ret.total_catch_up =
             round_amount(SumAt([k \in DOMAIN breakdown |-> breakdown[k].capital_amount],
                                DOMAIN breakdown),
                          assumptions.sum_rounding)

\* Two calls each accrue 500 * 10% * 2/365 = 0.27397...: the line items are
\* 0.27 each and the total is 0.54, where the unrounded sum rounds to 0.55.
C8_Witness ==
    /\ op = "calculate_late_interest_for_new_lp"
    /\ ret.raised = "none"
    /\ assumptions.sum_rounding = 2
    /\ Len(ret.breakdown_by_capital_call) = 2
    /\ ret.breakdown_by_capital_call[1].late_interest = Dec(27, 100)
    /\ ret.breakdown_by_capital_call[2].late_interest = Dec(27, 100)
    /\ ret.total_late_interest_due = Dec(54, 100)
    /\ ret.total_catch_up = DecInt(1000)
    /\ round_amount(SumAt([i \in DOMAIN args.capital_calls |->
                              UnroundedLateInterest(args.capital_calls[i])],
                          MissedIdx),
                    assumptions.sum_rounding) = Dec(55, 100)

-----------------------------------------------------------------------------
(* LateInterestEngine.run_complete_calculation                             *)
(*                                                                         *)
(* The frame run holds the locals of the method under their source names;  *)
(* run.partners is the caller's list, which the method sorts in place.     *)
(* str(x) of a Decimal or a date is modelled as the value tagged as text:  *)
(* the digits printed are not modelled.  The verbose printing and the       *)
(* fund_name label are left out.                                           *)

MaxRunPartners == 3     \* longest partners list given to the engine

str(x) == <<"str", x>>

\* A plausible slip: a sort that is not stable, partners of one close coming
\* out in the reverse of the order they went in.
SortByCloseNumber_unstable(partners) ==
    LET n == Len(partners)
        rank(i) == 1 + Cardinality({j \in 1..n :
                        \/ partners[j].close_number < partners[i].close_number
                        \/ /\ partners[j].close_number = partners[i].close_number
                           /\ j > i})
    IN  [k \in 1..n |-> partners[CHOOSE i \in 1..n : rank(i) = k]]

\* partners.sort(key=lambda p: p.close_number), stable and in place
RECURSIVE SortByCloseNumber(_)
SortByCloseNumber(partners) ==
    IF partners = <<>> THEN <<>>
    ELSE LET rest == SortByCloseNumber(SubSeq(partners, 1, Len(partners) - 1))
             x == partners[Len(partners)]
             k == Cardinality({i \in DOMAIN rest : rest[i].close_number <= x.close_number})
         IN  SubSeq(rest, 1, k) \o <<x>> \o SubSeq(rest, k + 1, Len(rest))

\* partners_by_close[close_num]
PartnersByClose(partners, close_num) ==
    SelectSeq(partners, LAMBDA p : p.close_number = close_num)

\* all_closes = sorted(partners_by_close.keys())
AllCloses(partners) ==
    LET keys == {p.close_number : p \in Range(partners)}
    IN  [k \in 1..Cardinality(keys) |-> Kth(keys, k)]

\* A plausible slip: no close skipped.
ClosesToProcess_all(partners) ==
    AllCloses(partners)

\* A plausible slip: the closes above 1 rather than the closes after the first.
ClosesToProcess_above_one(partners) ==
    SelectSeq(AllCloses(partners), LAMBDA c : c > 1)

\* closes_to_process = all_closes[1:]
ClosesToProcess(partners) ==
    LET all_closes == AllCloses(partners)
    IN  SubSeq(all_closes, 2, Len(all_closes))

\* The entry appended to all_new_lp_results for one calculation
NewLPResult(calc) ==
    [partner_name |-> calc.partner_name,
     close_number |-> calc.close_number,
     commitment |-> str(calc.commitment),
     issue_date |-> str(calc.issue_date),
     total_catch_up |-> str(calc.total_catch_up),
     total_late_interest_due |-> str(calc.total_late_interest_due),
     breakdown |-> [k \in DOMAIN calc.breakdown_by_capital_call |->
                       LET d == calc.breakdown_by_capital_call[k] IN
                       [call_number |-> d.call_number,
                        due_date |-> str(d.due_date),
                        call_percentage |-> str(d.call_percentage),
                        capital_amount |-> str(d.capital_amount),
                        late_interest |-> str(d.late_interest),
                        days_late |-> d.days_late,
                        effective_rate |-> str(d.effective_rate)]]]

\* A plausible slip: an LP whose calculation fails is caught and left out, and
\* the loop continues.
NewLPCalcs_failing_lp_skipped(a, calc, new_lps_at_close, capital_calls) ==
    LET calcs == [i \in DOMAIN new_lps_at_close |->
                     calculate_late_interest_for_new_lp(a, calc, new_lps_at_close[i],
                                                        capital_calls)]
    IN  SelectSeq(calcs, LAMBDA c : c.raised = "none")

\* The calculations of the new LPs of one close, in list order
NewLPCalcs(a, calc, new_lps_at_close, capital_calls) ==
    [i \in DOMAIN new_lps_at_close |->
        calculate_late_interest_for_new_lp(a, calc, new_lps_at_close[i], capital_calls)]

\* if commitment_increases: None and the empty dict are both false
Truthy(commitment_increases) ==
    commitment_increases # None /\ DOMAIN commitment_increases[1] # {}

\* A plausible slip: the step run without looking at total_collected.
AllocationStepRuns_any_total(existing_partners, total_collected) ==
    existing_partners # <<>>

\* if existing_partners and total_collected > 0
AllocationStepRuns(existing_partners, total_collected) ==
    existing_partners # <<>> /\ DecLt(DecZero, total_collected)

\* A plausible slip: variant A whatever was supplied.
AllocationsForClose_always_A(a, new_lp_calcs, partners, commitment_increases, close_num) ==
    calculate_allocations(a, new_lp_calcs, partners, close_num)

\* The allocator the step calls, by commitment_increases
AllocationsForClose(a, new_lp_calcs, partners, commitment_increases, close_num) ==
    IF Truthy(commitment_increases)
    THEN calculate_allocations_with_increases(a, new_lp_calcs, partners,
                                              commitment_increases[1], close_num)
    ELSE calculate_allocations(a, new_lp_calcs, partners, close_num)

\* The entry appended to aggregated_allocations for one aggregated record
AggregatedAllocation(alloc) ==
    LET by_close == alloc.allocation_by_admitting_close IN
    [partner_name |-> alloc.partner_name,
     commitment |-> str(alloc.commitment),
     close_number |-> alloc.close_number,
     total_allocation |-> str(alloc.total_allocation),
     allocation_by_close |->
         [key \in {ToString(k) : k \in DOMAIN by_close} |->
             str(by_close[CHOOSE k \in DOMAIN by_close : ToString(k) = key])]]

\* settings of the EngineOutput
Settings(a) ==
    [late_interest_base |-> a.late_interest_base,
     late_spread |-> str(a.late_spread),
     compounding |-> a.late_interest_compounding,
     end_date_calculation |-> a.end_date_calculation,
     calc_rounding |-> a.calc_rounding,
     sum_rounding |-> a.sum_rounding,
     prime_rate |-> IF a.prime_rate_history # <<>>
                    THEN str(a.prime_rate_history[1].rate) ELSE "N/A"]

-----------------------------------------------------------------------------
(* Runs of the engine                                                      *)

RunNames == <<"A", "B", "C", "D">>

\* (close_number, issue_date) of a partner: close 1 is issued on day 0
RunCloseDates == {<<1, 0>>, <<2, 1>>, <<2, 2>>, <<3, 3>>}

RunPartnerLists ==
    UNION {{[i \in 1..n |-> Partner(RunNames[i], cd[i][2], DecInt(1000), cd[i][1])]
               : cd \in [1..n -> RunCloseDates]}
           : n \in 0..MaxRunPartners}

RunCapitalCallLists ==
    {<<>>,
     <<CapitalCall(1, 0, DecInt(50))>>,
     <<CapitalCall(2, 1, DecInt(50)), CapitalCall(1, 0, DecInt(50))>>,
     <<CapitalCall(1, 2, Dec(1, 10000))>>}

\* commitment_increases: absent, an empty dict, or the original commitment of A
RunCommitmentIncreases ==
    {None, Some(<<>>), Some("A" :> DecInt(500)), Some("A" :> DecZero)}

RunAssumptions ==
    {FundAssumptions("simple", "flat", DecZero, e, 2, 2, <<>>, Some(DecInt(10)))
        : e \in EndDatePolicies}
    \cup {FundAssumptions("simple", "prime", DecInt(2), "issue_date", 2, 2, <<>>, None)}

\* date.today() on the day of the run
Today == {0, MaxDay}

\* LateInterestEngine.__init__
Init ==
    /\ assumptions \in RunAssumptions
    /\ rate_calculator = NewRateCalculatorFor(assumptions)
    /\ op = "none"
    /\ args = <<>>
    /\ ret = <<>>
    /\ run = NoRun

\* run_complete_calculation up to the loop over the closes
Begin ==
    /\ run.pc = "idle"
    /\ \E partners \in RunPartnerLists, capital_calls \in RunCapitalCallLists,
          commitment_increases \in RunCommitmentIncreases :
          LET closes_to_process == ClosesToProcess(SortByCloseNumber(partners)) IN
          /\ op' = "run_complete_calculation"
          /\ args' = [partners |-> partners, capital_calls |-> capital_calls,
                      commitment_increases |-> commitment_increases]
          /\ run' = [pc |-> IF closes_to_process = <<>> THEN "finish" ELSE "late_interest",
                     partners |-> SortByCloseNumber(partners),
                     capital_calls |-> capital_calls,
                     commitment_increases |-> commitment_increases,
                     closes_to_process |-> closes_to_process,
                     close_idx |-> 1,
                     new_lp_calcs |-> <<>>,
                     total_collected |-> DecZero,
                     all_new_lp_results |-> <<>>,
                     all_allocations_by_close |-> <<>>,
                     grand_total_collected |-> DecZero,
                     grand_total_allocated |-> DecZero,
                     close_summaries |-> <<>>]
    /\ UNCHANGED <<calc_vars, ret>>

\* One pass of the loop, first half: the late interest of the close's new LPs.
\* Each local is bound once, as the code computes it once.
CalculateLateInterestForClose ==
    /\ run.pc = "late_interest"
    /\ \E calcs \in {NewLPCalcs(assumptions, rate_calculator,
                                PartnersByClose(run.partners,
                                                run.closes_to_process[run.close_idx]),
                                run.capital_calls)} :
       \E failing \in {{i \in DOMAIN calcs : calcs[i].raised # "none"}} :
       \E new_lp_calcs \in {IF failing = {} THEN calcs
                            ELSE SubSeq(calcs, 1, Kth(failing, 1) - 1)} :
       \E total_collected \in {DecSum([i \in DOMAIN new_lp_calcs |->
                                          new_lp_calcs[i].total_late_interest_due])} :
       \E results \in {[i \in DOMAIN new_lp_calcs |-> NewLPResult(new_lp_calcs[i])]} :
           IF failing = {}
           THEN /\ run' = [run EXCEPT
                              !.pc = "allocate",
                              !.new_lp_calcs = new_lp_calcs,
                              !.total_collected = total_collected,
                              !.all_new_lp_results = @ \o results,
                              !.grand_total_collected = DecAdd(@, total_collected)]
                /\ UNCHANGED ret
           ELSE /\ run' = [run EXCEPT
                              !.pc = "raised",
                              !.new_lp_calcs = new_lp_calcs,
                              !.total_collected = total_collected,
                              !.all_new_lp_results = @ \o results]
                /\ ret' = [raised |-> calcs[Kth(failing, 1)].raised]
    /\ UNCHANGED <<calc_vars, op, args>>

\* One pass of the loop, second half: the allocation and the close summary
AllocateForClose ==
    /\ run.pc = "allocate"
    /\ \E close_num \in {run.closes_to_process[run.close_idx]} :
       \E existing_partners \in {SelectSeq(run.partners,
                                           LAMBDA p : p.close_number < close_num)} :
       \E runs \in {AllocationStepRuns(existing_partners, run.total_collected)} :
       \E result \in {IF runs
                      THEN AllocationsForClose(assumptions, run.new_lp_calcs, run.partners,
                                               run.commitment_increases, close_num)
                      ELSE Returned(<<>>, DecZero)} :
       \E summary \in {[close_number |-> close_num,
                        new_lps_count |-> Len(PartnersByClose(run.partners, close_num)),
                        existing_lps_count |-> Len(existing_partners),
                        total_collected |-> str(run.total_collected),
                        total_allocated |-> str(result.total_allocated),
                        difference |-> str(DecSub(run.total_collected,
                                                  result.total_allocated))]} :
           IF result.raised # "none"
           THEN /\ run' = [run EXCEPT !.pc = "raised"]
                /\ ret' = [raised |-> result.raised]
           ELSE /\ run' = [run EXCEPT
                              !.pc = IF run.close_idx = Len(run.closes_to_process)
                                     THEN "finish" ELSE "late_interest",
                              !.close_idx = @ + 1,
                              !.all_allocations_by_close =
                                  IF runs
                                  THEN Append(@, [close_num |-> close_num,
                                                  allocations |-> result.allocations])
                                  ELSE @,
                              !.grand_total_allocated =
                                  IF runs THEN DecAdd(@, result.total_allocated) ELSE @,
                              !.close_summaries = Append(@, summary)]
                /\ UNCHANGED ret
    /\ UNCHANGED <<calc_vars, op, args>>

\* After the loop: the aggregation and the EngineOutput
Finish ==
    /\ run.pc = "finish"
    /\ \E today \in Today :
       \E aggregated \in {IF run.all_allocations_by_close # <<>>
                          THEN aggregate_allocations_across_closes(
                                   assumptions, run.all_allocations_by_close)
                          ELSE <<>>} :
           ret' = [raised |-> "none",
                   calculation_date |-> str(today),
                   total_late_interest_collected |-> str(run.grand_total_collected),
                   total_late_interest_allocated |-> str(run.grand_total_allocated),
                   new_lps |-> run.all_new_lp_results,
                   existing_lps |-> [k \in DOMAIN aggregated |->
                                        AggregatedAllocation(aggregated[k])],
                   summary_by_close |-> run.close_summaries,
                   settings |-> Settings(assumptions)]
    /\ run' = [run EXCEPT !.pc = "done"]
    /\ UNCHANGED <<calc_vars, op, args>>

\* The new-LP breakdowns, aggregated allocations, per-close summaries and
\* grand totals of an EngineOutput: all of it but the settings and the day of
\* the run
Breakdown(output) ==
    [new_lps |-> output.new_lps,
     existing_lps |-> output.existing_lps,
     summary_by_close |-> output.summary_by_close,
     total_late_interest_collected |-> output.total_late_interest_collected,
     total_late_interest_allocated |-> output.total_late_interest_allocated]

\* A second call of run_complete_calculation on the same engine with the same
\* list objects: the partners list is the one the first run left behind.  The
\* caller keeps the breakdown of the first output.
BeginSecondRun ==
    /\ run.pc = "done"
    /\ "first_breakdown" \notin DOMAIN run
    /\ \E partners \in {SortByCloseNumber(run.partners)} :
       \E closes_to_process \in {ClosesToProcess(partners)} :
          run' = [pc |-> IF closes_to_process = <<>> THEN "finish" ELSE "late_interest",
                  partners |-> partners,
                  capital_calls |-> run.capital_calls,
                  commitment_increases |-> run.commitment_increases,
                  closes_to_process |-> closes_to_process,
                  close_idx |-> 1,
                  new_lp_calcs |-> <<>>,
                  total_collected |-> DecZero,
                  all_new_lp_results |-> <<>>,
                  all_allocations_by_close |-> <<>>,
                  grand_total_collected |-> DecZero,
                  grand_total_allocated |-> DecZero,
                  close_summaries |-> <<>>,
                  first_breakdown |-> Breakdown(ret)]
    /\ ret' = <<>>
    /\ UNCHANGED <<calc_vars, op, args>>

Next ==
    \/ Begin
    \/ CalculateLateInterestForClose
    \/ AllocateForClose
    \/ Finish
    \/ BeginSecondRun

Spec == Init /\ [][Next]_vars

-----------------------------------------------------------------------------
(* Properties of the orchestrator                                          *)

\* The sequence of the elements of a set of integers, ascending
Ascending(S) == [k \in 1..Cardinality(S) |-> Kth(S, k)]

\* The Decimal a text was printed from
DecOf(text) == text[2]

\* The close numbers present among the partners the caller passed
ClosesPresent == {args.partners[i].close_number : i \in DOMAIN args.partners}

\* The lowest close present (none when there is no partner)
LowestClosePresent == {c \in ClosesPresent : \A d \in ClosesPresent : c <= d}

\* The closes the loop has completed, in the order of their summaries
ProcessedCloses ==
    [k \in DOMAIN run.close_summaries |-> run.close_summaries[k].close_number]

\* How many new-LP records carry the name of the partner passed at position i
LateInterestRecordsOf(i) ==
    Cardinality({k \in DOMAIN run.all_new_lp_results :
                    /\ run.all_new_lp_results[k].partner_name = args.partners[i].name
                    /\ run.all_new_lp_results[k].close_number
                           = args.partners[i].close_number})

IsPrefix(s, t) ==
    /\ Len(s) <= Len(t)
    /\ \A k \in DOMAIN s : s[k] = t[k]

\* C9: the orchestrator skips close 1 and processes every other close
\* present among the partners, each exactly once and in ascending
\* close_number order: a completed run has summarised exactly the closes
\* present other than close 1, ascending, and holds one late-interest record
\* for every partner of those closes and none for a partner of close 1.
C9_SkipsCloseOne ==
    run.pc = "done"
    => /\ ProcessedCloses = Ascending(ClosesPresent \ {1})
       /\ \A i \in DOMAIN args.partners :
             LateInterestRecordsOf(i)
                 = IF args.partners[i].close_number # 1 THEN 1 ELSE 0

\* What all_closes[1:] does instead: the lowest-numbered close present is
\* the one skipped, whatever its number, and every other close present is
\* processed once in ascending order; a completed run holds one
\* late-interest record for every partner of each processed close and none
\* for a partner of the skipped close.  Without a partner of close 1 the
\* partners of the next close are never charged.
SkipsLowestClosePresent ==
    /\ run.pc # "idle"
       => /\ IsPrefix(ProcessedCloses, Ascending(ClosesPresent \ LowestClosePresent))
          /\ \A k \in DOMAIN run.all_new_lp_results :
                run.all_new_lp_results[k].close_number # 1
    /\ run.pc = "done"
       => /\ ProcessedCloses = Ascending(ClosesPresent \ LowestClosePresent)
          /\ Len(run.all_new_lp_results)
                 = Cardinality({i \in DOMAIN args.partners :
                                   args.partners[i].close_number \notin LowestClosePresent})
          /\ \A i \in DOMAIN args.partners :
                LateInterestRecordsOf(i)
                    = IF args.partners[i].close_number \in LowestClosePresent
                      THEN 0 ELSE 1

\* Partners passed as closes 3, 2, 3 and no partner of close 1: close 2 is
\* skipped and its partner gets no late-interest record; close 3 is
\* processed with its two partners.
C9_Witness ==
    /\ run.pc = "done"
    /\ Len(args.partners) = 3
    /\ args.partners[1].close_number = 3
    /\ args.partners[2].close_number = 2
    /\ args.partners[3].close_number = 3
    /\ ProcessedCloses = <<3>>
    /\ Len(run.all_new_lp_results) = 2
    /\ LateInterestRecordsOf(2) = 0

\* Partners passed as closes 3, 1, 2: close 1 is skipped, then 2, then 3.
C9_WitnessCloseOnePresent ==
    /\ run.pc = "done"
    /\ Len(args.partners) = 3
    /\ args.partners[1].close_number = 3
    /\ args.partners[2].close_number = 1
    /\ args.partners[3].close_number = 2
    /\ ProcessedCloses = <<2, 3>>
    /\ run.all_new_lp_results[1].partner_name = "C"
    /\ run.all_new_lp_results[2].partner_name = "A"

\* The allocation recorded for a close (none when the step did not run)
AllocationEntriesOf(close_num) ==
    {k \in DOMAIN run.all_allocations_by_close :
        run.all_allocations_by_close[k].close_num = close_num}

\* The new-LP calculations of a close, recomputed from the caller's inputs
NewLPCalcsOf(close_num) ==
    NewLPCalcs(assumptions, rate_calculator,
               PartnersByClose(run.partners, close_num), args.capital_calls)

\* What the variant the claim names returns for a close
VariantFor(close_num) ==
    IF args.commitment_increases # None
    THEN calculate_allocations_with_increases(assumptions, NewLPCalcsOf(close_num),
                                              run.partners, args.commitment_increases[1],
                                              close_num)
    ELSE calculate_allocations(assumptions, NewLPCalcsOf(close_num), run.partners,
                               close_num)

\* C10: for each processed close the allocation step runs if and only if
\* some partner has a lower close_number and the close's total_collected is
\* greater than 0; the allocations it records are those of variant B when
\* commitment increases were supplied and of variant A otherwise; when the
\* step does not run the close has no allocation records and its summary
\* reports a total_allocated of 0.
C10_AllocationStep ==
    run.pc # "idle"
    => \A k \in DOMAIN run.close_summaries :
          LET summary == run.close_summaries[k]
              close_num == summary.close_number
              existing == {i \in DOMAIN args.partners :
                              args.partners[i].close_number < close_num}
              entries == AllocationEntriesOf(close_num)
          IN  /\ Cardinality(entries) <= 1
              /\ entries # {}
                 <=> (existing # {} /\ DecLt(DecZero, DecOf(summary.total_collected)))
              /\ \A e \in entries :
                    /\ VariantFor(close_num).raised = "none"
                    /\ run.all_allocations_by_close[e].allocations
                           = VariantFor(close_num).allocations
                    /\ summary.total_allocated
                           = str(VariantFor(close_num).total_allocated)
              /\ entries = {} => summary.total_allocated = str(DecZero)

\* A and B at close 1, C at close 2, A's original commitment 500 supplied:
\* the step runs with variant B, A receives 1/3 of the 0.27 collected where
\* variant A would give 1/2.
C10_Witness ==
    /\ run.pc = "done"
    /\ args.commitment_increases = Some("A" :> DecInt(500))
    /\ Len(run.close_summaries) = 1
    /\ run.close_summaries[1].total_collected = str(Dec(27, 100))
    /\ Len(run.all_allocations_by_close) = 1
    /\ Len(run.all_allocations_by_close[1].allocations) = 2
    /\ run.all_allocations_by_close[1].allocations[1].partner_name = "A"
    /\ run.all_allocations_by_close[1].allocations[1].total_allocation = Dec(9, 100)
    /\ run.all_allocations_by_close[1].allocations[2].total_allocation = Dec(18, 100)

\* A close with existing partners that collects nothing: the step is skipped.
C10_WitnessStepSkipped ==
    /\ run.pc = "done"
    /\ Len(run.close_summaries) = 2
    /\ run.close_summaries[1].existing_lps_count = 1
    /\ run.close_summaries[1].total_collected = str(DecZero)
    /\ run.close_summaries[1].total_allocated = str(DecZero)
    /\ run.close_summaries[2].existing_lps_count = 2
    /\ run.all_allocations_by_close = <<>>
    /\ ret.existing_lps = <<>>

\* The empty dict is supplied: the allocations are those of both variants.
C10_WitnessEmptyDict ==
    /\ run.pc = "done"
    /\ args.commitment_increases = Some(<<>>)
    /\ Len(run.all_allocations_by_close) = 1
    /\ run.all_allocations_by_close[1].allocations # <<>>

-----------------------------------------------------------------------------
(* Error handling of the allocation calculator                             *)

AllocationOps == {"calculate_allocations", "calculate_allocations_with_increases"}

\* C11: both allocation variants return an empty allocation list and a total
\* of 0, without raising, when no partner has close_number < admitting
\* close, and also when the total_late_interest_due of the new-LP
\* calculations of the admitting close sum to zero, whatever the
\* calculations of other closes hold.
C11_NothingToAllocate ==
    (op \in AllocationOps /\ (ExistingIdx = {} \/ LateInterestToAllocate = DecZero))
    => ret = Returned(<<>>, DecZero)

\* Variant B with an existing partner, admitting close 2, and 0.03 due at
\* close 3 only: nothing is allocated.
C11_Witness ==
    /\ op = "calculate_allocations_with_increases"
    /\ ExistingIdx # {}
    /\ args.admitting_close_number = 2
    /\ \E j \in DOMAIN args.new_lps :
          /\ args.new_lps[j].close_number = 3
          /\ args.new_lps[j].total_late_interest_due # DecZero
    /\ LateInterestToAllocate = DecZero
    /\ ret = Returned(<<>>, DecZero)

\* Variant A with 0.01 due at the admitting close and no existing partner.
C11_WitnessNoExistingPartner ==
    /\ op = "calculate_allocations"
    /\ ExistingIdx = {}
    /\ args.all_partners # <<>>
    /\ LateInterestToAllocate = Cent
    /\ ret = Returned(<<>>, DecZero)

\* Existing partners whose commitments sum to zero and nothing to allocate:
\* the empty result is returned before the commitment base is looked at.
C11_WitnessZeroBaseNotReached ==
    /\ op = "calculate_allocations"
    /\ ExistingIdx # {}
    /\ SumAt(OwnBasis, ExistingIdx) = DecZero
    /\ LateInterestToAllocate = DecZero
    /\ ret = Returned(<<>>, DecZero)

\* C12: with existing partners and a nonzero late interest to allocate, a
\* total allocation basis of zero (the existing commitments in variant A,
\* the original commitments where mapped in variant B) makes the call raise
\* ValueError, and no allocations are returned.
C12_ZeroBasisRaises ==
    /\ (/\ op = "calculate_allocations"
        /\ ExistingIdx # {}
        /\ LateInterestToAllocate # DecZero
        /\ SumAt(OwnBasis, ExistingIdx) = DecZero)
       => ret = Raised(ZeroCommitmentError)
    /\ (/\ op = "calculate_allocations_with_increases"
        /\ ExistingIdx # {}
        /\ LateInterestToAllocate # DecZero
        /\ SumAt(IncreaseBasis, ExistingIdx) = DecZero)
       => ret = Raised(ZeroCommitmentError)
    /\ (op \in AllocationOps /\ ret.raised # "none")
       => /\ ret.raised = ZeroCommitmentError
          /\ ret.allocations = <<>>
          /\ ExistingIdx # {}
          /\ LateInterestToAllocate # DecZero

\* Variant B: A, the only existing partner, has commitment 2 and a mapped
\* original commitment of 0.
C12_Witness ==
    /\ op = "calculate_allocations_with_increases"
    /\ Cardinality(ExistingIdx) = 1
    /\ \A i \in ExistingIdx : /\ args.all_partners[i].name = "A"
                              /\ args.all_partners[i].commitment = DecInt(2)
    /\ args.commitment_increases = ("A" :> DecZero)
    /\ LateInterestToAllocate = Cent
    /\ ret = Raised(ZeroCommitmentError)

\* Variant A: two existing partners of commitment 0.
C12_WitnessVariantA ==
    /\ op = "calculate_allocations"
    /\ Cardinality(ExistingIdx) = 2
    /\ SumAt(OwnBasis, ExistingIdx) = DecZero
    /\ LateInterestToAllocate # DecZero
    /\ ret = Raised(ZeroCommitmentError)

-----------------------------------------------------------------------------
(* Allocation among many existing partners                                 *)

MaxManyPartners == 4    \* most existing partners sharing one close's late interest

BalanceNames == <<"A", "B", "C", "D", "E">>

\* Existing partners of close 1, commitments 1 or 2
ManyPartnerLists ==
    UNION {{[i \in 1..n |-> Partner(BalanceNames[i], 1, DecInt(c[i]), 1)]
               : c \in [1..n -> {1, 2}]}
           : n \in 1..MaxManyPartners}

\* One new LP of close 2 owing 0.01, 0.02 or 0.03
ManyNewLps == {<<NewLPCalc(2, DecMul(DecInt(k), Cent))>> : k \in 1..3}

InitBalance ==
    /\ assumptions \in AllocAssumptions
    /\ rate_calculator = NoCalculator
    /\ op = "none"
    /\ args = <<>>
    /\ ret = <<>>
    /\ run = NoRun

CallCalculateAllocationsForMany ==
    /\ op = "none"
    /\ \E new_lps \in ManyNewLps, all_partners \in ManyPartnerLists :
          /\ op' = "calculate_allocations"
          /\ args' = [new_lps |-> new_lps, all_partners |-> all_partners,
                      admitting_close_number |-> 2]
          /\ ret' = calculate_allocations(assumptions, new_lps, all_partners, 2)
    /\ UNCHANGED <<calc_vars, run>>

CallCalculateAllocationsWithIncreasesForMany ==
    /\ op = "none"
    /\ \E new_lps \in ManyNewLps, all_partners \in ManyPartnerLists,
          commitment_increases \in {<<>>, "A" :> DecInt(1)} :
          /\ op' = "calculate_allocations_with_increases"
          /\ args' = [new_lps |-> new_lps, all_partners |-> all_partners,
                      commitment_increases |-> commitment_increases,
                      admitting_close_number |-> 2]
          /\ ret' = calculate_allocations_with_increases(assumptions, new_lps,
                        all_partners, commitment_increases, 2)
    /\ UNCHANGED <<calc_vars, run>>

NextBalance ==
    \/ CallCalculateAllocationsForMany
    \/ CallCalculateAllocationsWithIncreasesForMany

SpecBalance == InitBalance /\ [][NextBalance]_vars

DecAbsDiff(a, b) == IF DecLt(a, b) THEN DecSub(b, a) ELSE DecSub(a, b)
DecLe(a, b) == ~DecLt(b, a)

\* One unit of a rounding to decimal_places places
Unit(decimal_places) == Dec(1, Pow10(decimal_places))

\* The sum of the per-partner allocations returned
AllocationsSum ==
    SumAt([k \in DOMAIN ret.allocations |-> ret.allocations[k].total_allocation],
          DOMAIN ret.allocations)

AllocationComputed ==
    /\ op \in AllocationOps
    /\ ret.raised = "none"
    /\ ret.allocations # <<>>

\* C13: whenever an allocation is computed, for any number of existing
\* partners and any commitments, the sum of the per-partner allocations
\* differs from the total late interest collected at that close by at most
\* one unit of sum_rounding.
C13_WithinOneUnit ==
    AllocationComputed
    => DecLe(DecAbsDiff(AllocationsSum, LateInterestToAllocate),
             Unit(assumptions.sum_rounding))

\* C13, as the code has it: each allocation is rounded on its own to
\* calc_rounding, so the sum of the per-partner allocations differs from the
\* total late interest collected by at most half a unit of calc_rounding per
\* existing partner; nothing redistributes the residual.
C13_WithinHalfUnitPerPartner ==
    AllocationComputed
    => DecLe(DecMul(DecInt(2), DecAbsDiff(AllocationsSum, LateInterestToAllocate)),
             DecMul(DecInt(Len(ret.allocations)), Unit(assumptions.calc_rounding)))

\* Four equal partners share 0.02: each share is 0.005, rounded to 0.00, and
\* nothing of the 0.02 is allocated, two units of sum_rounding away.
C13_Witness ==
    /\ op = "calculate_allocations"
    /\ assumptions.calc_rounding = 2
    /\ assumptions.sum_rounding = 2
    /\ Len(ret.allocations) = 4
    /\ LateInterestToAllocate = DecMul(DecInt(2), Cent)
    /\ \A k \in DOMAIN ret.allocations : ret.allocations[k].total_allocation = DecZero
    /\ ret.total_allocated = DecZero

-----------------------------------------------------------------------------
(* Calls that are not late                                                 *)

\* C14: a capital call whose due_date equals the new LP's issue_date yields,
\* in that LP's calculation, a detail with days_late = 0 and
\* late_interest = 0.
C14_DueOnIssueDateDetail ==
    (op = "calculate_late_interest_for_new_lp" /\ ret.raised = "none")
    => \A i \in DOMAIN args.capital_calls :
          args.capital_calls[i].due_date = args.new_lp.issue_date
          => \E k \in DOMAIN ret.breakdown_by_capital_call :
                /\ SameCall(ret.breakdown_by_capital_call[k], args.capital_calls[i])
                /\ ret.breakdown_by_capital_call[k].days_late = 0
                /\ ret.breakdown_by_capital_call[k].late_interest = DecZero

\* C14, as the code has it: a capital call whose due_date equals the new
\* LP's issue_date is not a missed call, so the LP's calculation holds no
\* detail for it and the totals owe it nothing; given such a call directly,
\* _calculate_late_interest_for_call returns a detail with days_late = 0 and
\* late_interest = 0 and never a negative day count.
C14_DueOnIssueDateNotMissed ==
    /\ (op = "calculate_late_interest_for_new_lp" /\ ret.raised = "none")
       => /\ \A k \in DOMAIN ret.breakdown_by_capital_call :
                ret.breakdown_by_capital_call[k].due_date # args.new_lp.issue_date
          /\ (\A i \in DOMAIN args.capital_calls :
                 args.capital_calls[i].due_date = args.new_lp.issue_date)
             => /\ ret.breakdown_by_capital_call = <<>>
                /\ ret.total_late_interest_due = DecZero
                /\ ret.total_catch_up = DecZero
    /\ (/\ op = "_calculate_late_interest_for_call"
        /\ args.call.due_date = args.new_lp.issue_date)
       => /\ ret.raised = "none"
          /\ ret.detail.days_late = 0
          /\ ret.detail.late_interest = DecZero

\* A 50% call due on the LP's issue date, alone in the list: the calculation
\* returns an empty breakdown and no catch-up.
C14_Witness ==
    /\ op = "calculate_late_interest_for_new_lp"
    /\ ret.raised = "none"
    /\ Len(args.capital_calls) = 1
    /\ args.capital_calls[1].due_date = args.new_lp.issue_date
    /\ args.capital_calls[1].call_percentage = DecInt(50)
    /\ ret.breakdown_by_capital_call = <<>>
    /\ ret.total_catch_up = DecZero

\* The same call given to _calculate_late_interest_for_call directly.
C14_WitnessDirectCall ==
    /\ op = "_calculate_late_interest_for_call"
    /\ args.call.due_date = args.new_lp.issue_date
    /\ args.call.call_percentage = DecInt(50)
    /\ ret.raised = "none"
    /\ ret.detail.days_late = 0
    /\ ret.detail.capital_amount = DecInt(500)

\* The details a call under way has produced
DetailsProduced ==
    IF op = "calculate_late_interest_for_new_lp" /\ ret.raised = "none"
    THEN Range(ret.breakdown_by_capital_call)
    ELSE IF op = "_calculate_late_interest_for_call" /\ ret.raised = "none"
    THEN {ret.detail}
    ELSE {}

\* (end_date - due_date).days of a detail, for the end date of the policy
PolicyDays(detail) ==
    IF assumptions.end_date_calculation = "issue_date"
    THEN args.new_lp.issue_date - detail.due_date
    ELSE 0

\* C15: every LateInterestDetail produced has days_late >= 0; whenever
\* (end_date - due_date).days <= 0 for the end date the policy chooses, the
\* detail has days_late = 0, late_interest = 0 and effective_rate = 0, and
\* the accrual calculator is not invoked: the call returns even where the
\* accrual would raise (no rate history, or an end date before the start).
C15_NotLateNoAccrual ==
    /\ \A detail \in DetailsProduced :
          /\ detail.days_late >= 0
          /\ PolicyDays(detail) <= 0
             => /\ detail.days_late = 0
                /\ detail.late_interest = DecZero
                /\ detail.effective_rate = DecZero
          /\ PolicyDays(detail) > 0 => detail.days_late = PolicyDays(detail)
    /\ (/\ op = "_calculate_late_interest_for_call"
        /\ EndDateFor(assumptions, args.new_lp, args.call) - args.call.due_date <= 0)
       => ret.raised = "none"
    /\ (/\ op = "calculate_late_interest_for_new_lp"
        /\ assumptions.end_date_calculation = "due_date")
       => ret.raised = "none"

\* A call due two days after the LP's issue date, with a PRIME basis and no
\* rate history: the accrual would raise, the detail is zero.
C15_Witness ==
    /\ op = "_calculate_late_interest_for_call"
    /\ assumptions.late_interest_base = "prime"
    /\ assumptions.prime_rate_history = <<>>
    /\ assumptions.end_date_calculation = "issue_date"
    /\ args.call.due_date = args.new_lp.issue_date + 2
    /\ args.call.call_percentage = DecInt(50)
    /\ ret.raised = "none"
    /\ ret.detail.days_late = 0
    /\ ret.detail.late_interest = DecZero
    /\ ret.detail.effective_rate = DecZero

\* Under DUE_DATE a missed call yields a zero detail.
C15_WitnessDueDatePolicy ==
    /\ op = "calculate_late_interest_for_new_lp"
    /\ assumptions.end_date_calculation = "due_date"
    /\ Len(ret.breakdown_by_capital_call) = 2
    /\ \A k \in 1..2 : /\ ret.breakdown_by_capital_call[k].days_late = 0
                       /\ ret.breakdown_by_capital_call[k].late_interest = DecZero


-----------------------------------------------------------------------------
(* The range check of calculate_interest                                   *)

\* C16: calculate_interest raises the invalid-range error, and returns no
\* result, exactly when end_date < start_date; for end_date >= start_date,
\* end_date = start_date included, it does not raise that error (it returns
\* a result or fails for another reason).
C16_InvalidRangeExactly ==
    op = "calculate_interest"
    => /\ (ret.raised = InvalidRangeError) <=> (args.end_date < args.start_date)
       /\ ret.raised = InvalidRangeError => ret = InterestRaised(InvalidRangeError)

\* A call with end_date = start_date that returns a result.
C16_Witness ==
    /\ op = "calculate_interest"
    /\ args.end_date = args.start_date
    /\ ret.raised = "none"

\* A call with end_date < start_date, rejected.
C16_WitnessRejected ==
    /\ op = "calculate_interest"
    /\ args.end_date < args.start_date
    /\ ret.raised = InvalidRangeError

\* A call with end_date >= start_date that fails for another reason: the
\* rate lookup on an empty history.
C16_WitnessOtherError ==
    /\ op = "calculate_interest"
    /\ args.end_date >= args.start_date
    /\ ret.raised = NoRateHistoryError


-----------------------------------------------------------------------------
(* A variable rate without a rate history                                  *)

PrimeWithEmptyHistory ==
    /\ assumptions.late_interest_base = "prime"
    /\ assumptions.prime_rate_history = <<>>

RunEnded == run.pc \in {"done", "raised"}

\* The rate lookup on an empty history fails for every target date.
LookupOnEmptyHistoryFails ==
    (op = "get_rate_at_date" /\ PrimeWithEmptyHistory)
    => ret = RateRaised(NoRateHistoryError)

LookupOnEmptyHistoryFails_Witness ==
    /\ op = "get_rate_at_date"
    /\ PrimeWithEmptyHistory
    /\ ret.raised = NoRateHistoryError

\* C17: in variable-rate mode with an empty rate history the rate lookup
\* fails for every target date, and a run configured with a PRIME basis and
\* an empty rate history is aborted with that error, producing no result.
C17_EmptyHistoryAbortsRun ==
    /\ LookupOnEmptyHistoryFails
    /\ (PrimeWithEmptyHistory /\ RunEnded)
       => /\ run.pc = "raised"
          /\ ret = [raised |-> NoRateHistoryError]

\* A run with a PRIME basis and an empty history that returns an output: no
\* new LP of a processed close has a call to pay late interest on.
C17_Witness ==
    /\ PrimeWithEmptyHistory
    /\ run.pc = "done"
    /\ ret.raised = "none"
    /\ Len(run.partners) > 0

\* The run is aborted by the lookup of the first accrual.
C17_WitnessAborted ==
    /\ PrimeWithEmptyHistory
    /\ run.pc = "raised"
    /\ ret = [raised |-> NoRateHistoryError]

\* What the code does: it is aborted exactly when an accrual is reached, that
\* is when a new LP of a processed close has a missed call.
AbortedWhenAccrualReached ==
    (PrimeWithEmptyHistory /\ RunEnded)
    => /\ run.pc = "raised" => ret = [raised |-> NoRateHistoryError]
       /\ run.pc = "raised"
          <=> \E i \in DOMAIN run.partners :
                 /\ run.partners[i].close_number \in Range(run.closes_to_process)
                 /\ MissedCalls(run.partners[i], run.capital_calls) # <<>>


-----------------------------------------------------------------------------
(* Failure of a step of the run                                            *)

\* The partners of the close in progress whose late-interest calculation
\* raises, by position in the list
FailingNewLps ==
    {i \in DOMAIN run.partners :
        /\ run.partners[i].close_number = run.closes_to_process[run.close_idx]
        /\ calculate_late_interest_for_new_lp(assumptions, rate_calculator,
                                              run.partners[i],
                                              args.capital_calls).raised # "none"}

\* The exception of the first of them
FirstLateInterestError ==
    calculate_late_interest_for_new_lp(assumptions, rate_calculator,
                                       run.partners[Kth(FailingNewLps, 1)],
                                       args.capital_calls).raised

\* What the allocator of the close in progress returns or raises
AllocationOfCloseInProgress ==
    AllocationsForClose(assumptions, run.new_lp_calcs, run.partners,
                        args.commitment_increases,
                        run.closes_to_process[run.close_idx])

AllocationStepFails ==
    /\ \E i \in DOMAIN run.partners :
          run.partners[i].close_number < run.closes_to_process[run.close_idx]
    /\ DecLt(DecZero, run.total_collected)
    /\ AllocationOfCloseInProgress.raised # "none"

\* C18: when a late-interest or allocation step of run_complete_calculation
\* fails, the error leaves the run uncaught: the run ends with that error and
\* without an EngineOutput, and from then on nothing happens: no later close
\* is processed, nothing is retried.
C18_AllOrNothing ==
    /\ [](run.pc = "raised" => /\ DOMAIN ret = {"raised"}
                               /\ ret.raised # "none")
    /\ [][/\ (run.pc = "late_interest" /\ FailingNewLps # {})
             => /\ run'.pc = "raised"
                /\ ret' = [raised |-> FirstLateInterestError]
                /\ run'.close_idx = run.close_idx
                /\ run'.close_summaries = run.close_summaries
          /\ (run.pc = "allocate" /\ AllocationStepFails)
             => /\ run'.pc = "raised"
                /\ ret' = [raised |-> AllocationOfCloseInProgress.raised]
                /\ run'.close_idx = run.close_idx
                /\ run'.close_summaries = run.close_summaries
          /\ run.pc # "raised"]_vars

\* A run aborted by a rate lookup while a later close was still to process
C18_Witness ==
    /\ run.pc = "raised"
    /\ ret = [raised |-> NoRateHistoryError]
    /\ run.close_idx < Len(run.closes_to_process)

\* A run aborted by the allocation step: the commitment base is zero
C18_WitnessZeroBase ==
    /\ run.pc = "raised"
    /\ ret = [raised |-> ZeroCommitmentError]

\* A run aborted in its second close, after a first close was summarised
C18_WitnessSecondClose ==
    /\ run.pc = "raised"
    /\ run.close_idx = 2
    /\ Len(run.close_summaries) = 1


-----------------------------------------------------------------------------
(* Two runs on the same inputs                                             *)

SecondRunDone == run.pc = "done" /\ "first_breakdown" \in DOMAIN run

\* C19: a second run of run_complete_calculation on the same engine and the
\* same list objects, after the first run, returns the same new-LP
\* breakdowns, aggregated allocations, per-close summaries and grand totals
\* as the first.
C19_SecondRunIdentical ==
    SecondRunDone
    => /\ ret.raised = "none"
       /\ Breakdown(ret) = run.first_breakdown

\* A second run whose partners list was reordered by the first, with two
\* new LPs of one close charged and an allocation made.
C19_Witness ==
    /\ SecondRunDone
    /\ run.partners # args.partners
    /\ Len(ret.new_lps) >= 2
    /\ ret.existing_lps # <<>>
    /\ \E i, j \in DOMAIN run.partners :
          /\ i # j
          /\ run.partners[i].close_number = run.partners[j].close_number
          /\ run.partners[i].close_number \in Range(run.closes_to_process)


-----------------------------------------------------------------------------
(* The inputs of a run after the run                                       *)

\* C20: a run does not modify its inputs: when run_complete_calculation has
\* returned, the caller's partners list holds the same Partner records in the
\* same order as before the call, and the capital calls list is as before.
C20_InputsUnmodified ==
    run.pc = "done"
    => /\ run.partners = args.partners
       /\ run.capital_calls = args.capital_calls

\* A run that returned and left the caller's partners list in another order
C20_Witness ==
    /\ run.pc = "done"
    /\ ret.raised = "none"
    /\ run.partners # args.partners

\* What the code does: the caller's list is sorted by close_number in place,
\* also when the run is aborted; its records are the ones given, none is
\* changed, and the capital calls and the assumptions are left as they were.
OnlyOrderOfPartnersChanges ==
    /\ [](run.pc # "idle"
          => /\ run.partners = SortByCloseNumber(args.partners)
             /\ \A p \in Range(args.partners) :
                   Cardinality({i \in DOMAIN run.partners : run.partners[i] = p})
                   = Cardinality({i \in DOMAIN args.partners : args.partners[i] = p})
             /\ run.capital_calls = args.capital_calls)
    /\ [][assumptions' = assumptions /\ rate_calculator' = rate_calculator]_vars


-----------------------------------------------------------------------------
(* The rounding mode                                                       *)

\* Rounding to decimal_places with half-way values going away from zero
RoundHalfUp(amount, decimal_places) ==
    LET s == Pow10(decimal_places)
        magnitude_of == <<Abs(amount[1]), amount[2]>>
        q == ScaledQuotient(magnitude_of, s)
        r == ScaledRemainder(magnitude_of, s)
        magnitude == IF 2 * r >= amount[2] THEN q + 1 ELSE q
    IN  Dec(IF amount[1] < 0 THEN -magnitude ELSE magnitude, s)

\* The share of existing partner i before it is rounded (variant A)
UnroundedShare(i) ==
    DecDiv(DecMul(LateInterestToAllocate, OwnBasis[i]), SumAt(OwnBasis, ExistingIdx))

AllocationRounded ==
    /\ op = "calculate_allocations"
    /\ ret.raised = "none"
    /\ ret.allocations # <<>>

\* C21: every rounding step rounds half-way values away from zero
\* (round-half-up) to the configured number of decimal places; here the
\* per-partner allocation, rounded to calc_rounding, and total_allocated,
\* rounded to sum_rounding.
C21_RoundsHalfUp ==
    AllocationRounded
    => /\ \A k \in DOMAIN ret.allocations :
             ret.allocations[k].total_allocation =
                 RoundHalfUp(UnroundedShare(Kth(ExistingIdx, k)),
                             assumptions.calc_rounding)
       /\ ret.total_allocated =
             RoundHalfUp(DecSum([k \in DOMAIN ret.allocations |->
                                    ret.allocations[k].total_allocation]),
                         assumptions.sum_rounding)

\* An allocation whose unrounded share lies half-way between two values
C21_Witness ==
    /\ AllocationRounded
    /\ \E k \in DOMAIN ret.allocations :
          LET share == UnroundedShare(Kth(ExistingIdx, k)) IN
          /\ RoundHalfUp(share, assumptions.calc_rounding)
             # round_amount_floor(share, assumptions.calc_rounding)
          /\ DecSub(RoundHalfUp(share, assumptions.calc_rounding), share)
             = DecSub(share, round_amount_floor(share, assumptions.calc_rounding))

\* What the code does: half-way values go to the neighbour whose last digit
\* is even.
RoundsHalfEven ==
    AllocationRounded
    => \A k \in DOMAIN ret.allocations :
          LET share == UnroundedShare(Kth(ExistingIdx, k))
              down == round_amount_floor(share, assumptions.calc_rounding)
              up == RoundHalfUp(share, assumptions.calc_rounding)
              got == ret.allocations[k].total_allocation
          IN  /\ got \in {down, up}
              /\ DecSub(up, share) = DecSub(share, down) /\ up # down
                 => ((got[1] * Pow10(assumptions.calc_rounding)) \div got[2]) % 2 = 0


-----------------------------------------------------------------------------
(* Calls on calendar dates: the historical scenarios                       *)

\* datetime.date as its proleptic Gregorian ordinal (date.toordinal), the
\* difference of two dates being the difference of their ordinals
IsLeapYear(y) == y % 4 = 0 /\ (y % 100 # 0 \/ y % 400 = 0)

DaysInMonth(y, m) ==
    IF m = 2 THEN (IF IsLeapYear(y) THEN 29 ELSE 28)
    ELSE IF m \in {4, 6, 9, 11} THEN 30 ELSE 31

RECURSIVE DaysBeforeMonth(_, _)
DaysBeforeMonth(y, m) ==
    IF m = 1 THEN 0 ELSE DaysBeforeMonth(y, m - 1) + DaysInMonth(y, m - 1)

DaysBeforeYear(y) ==
    365 * (y - 1) + ((y - 1) \div 4) - ((y - 1) \div 100) + ((y - 1) \div 400)

Date(y, m, d) == DaysBeforeYear(y) + DaysBeforeMonth(y, m) + d

\* The due dates of the six historical capital calls, and issue dates
HistoricalDueDates ==
    {Date(2022, 4, 20), Date(2023, 1, 23), Date(2023, 7, 11),
     Date(2024, 3, 15), Date(2024, 9, 26), Date(2025, 3, 13)}

HistoricalIssueDates == {Date(2024, 2, 29), Date(2025, 10, 31)}

HistoricalCommitments == {DecInt(1000000), DecInt(5000000)}

HistoricalPercentages == {DecInt(100), DecInt(20), DecInt(10)}

\* Flat 9.25 % and 9.5 %, and prime 7.5 % + 2 % since 2020-01-01; under the
\* DUE_DATE policy the prime base with that history and with none
HistoricalAssumptions ==
    {FundAssumptions("simple", "flat", DecZero, "issue_date", 2, 2, <<>>, Some(f))
        : f \in {Dec(37, 4), Dec(19, 2)}}
    \cup {FundAssumptions("simple", "prime", DecInt(2), "issue_date", 2, 2,
                          <<PrimeRateChange(Date(2020, 1, 1), Dec(15, 2))>>, None)}
    \cup {FundAssumptions("simple", "prime", DecInt(2), "due_date", 2, 2, h, None)
            : h \in {<<>>, <<PrimeRateChange(Date(2020, 1, 1), Dec(15, 2))>>}}

InitHistorical ==
    /\ assumptions \in HistoricalAssumptions
    /\ rate_calculator = NewRateCalculatorFor(assumptions)
    /\ op = "none"
    /\ args = <<>>
    /\ ret = <<>>
    /\ run = NoRun

CallCalculateInterestOnDates ==
    /\ op = "none"
    /\ \E principal \in HistoricalCommitments, start_date \in HistoricalDueDates,
          end_date \in HistoricalIssueDates :
          /\ op' = "calculate_interest"
          /\ args' = [principal |-> principal, start_date |-> start_date,
                      end_date |-> end_date]
          /\ ret' = calculate_interest(rate_calculator, principal, start_date, end_date)
    /\ UNCHANGED <<calc_vars, run>>

CallCalculateLateInterestForCallOnDates ==
    /\ op = "none"
    /\ \E commitment \in HistoricalCommitments, issue_date \in HistoricalIssueDates,
          due_date \in HistoricalDueDates, call_percentage \in HistoricalPercentages :
       \E new_lp \in {Partner("New LP", issue_date, commitment, 2)} :
       \E call \in {CapitalCall(1, due_date, call_percentage)} :
       \E raises \in {LateInterestForCallRaises(assumptions, rate_calculator,
                                                new_lp, call)} :
          /\ op' = "_calculate_late_interest_for_call"
          /\ args' = [new_lp |-> new_lp, call |-> call]
          /\ ret' = IF raises # "none"
                    THEN [raised |-> raises]
                    ELSE [raised |-> "none",
                          detail |-> calculate_late_interest_for_call(
                                         assumptions, rate_calculator, new_lp, call)]
    /\ UNCHANGED <<calc_vars, run>>

NextHistorical ==
    \/ CallCalculateInterestOnDates
    \/ CallCalculateLateInterestForCallOnDates

SpecHistorical == InitHistorical /\ [][NextHistorical]_vars

\* Scenario 1: a call of 1,000,000 due 2022-04-20, the LP issued 2025-10-31,
\* simple interest at a flat 9.25 %
Scenario1 ==
    /\ op = "_calculate_late_interest_for_call"
    /\ assumptions.flat_rate = Some(Dec(37, 4))
    /\ args.call.due_date = Date(2022, 4, 20)
    /\ args.new_lp.issue_date = Date(2025, 10, 31)
    /\ get_call_amount(args.call, args.new_lp.commitment) = DecInt(1000000)

\* C22: in scenario 1 the inclusive day count is 1,291 and the late interest
\* rounded to 2 decimal places is 327,210.27.
C22_Scenario1 ==
    Scenario1
    => /\ ret.raised = "none"
       /\ InclusiveDays(args.call.due_date, args.new_lp.issue_date) = 1291
       /\ ret.detail.days_late + 1 = 1291
       /\ ret.detail.late_interest = Dec(32721027, 100)

\* The amended claim: the day count is 1,291 and the late interest is
\* 327,171.23, which is 1,000,000 x 0.0925 x 1291/365 rounded to 2 places.
C22_Scenario1Interest ==
    Scenario1
    => /\ ret.raised = "none"
       /\ InclusiveDays(args.call.due_date, args.new_lp.issue_date) = 1291
       /\ ret.detail.days_late + 1 = 1291
       /\ ret.detail.late_interest = Dec(32717123, 100)
       /\ ret.detail.capital_amount = DecInt(1000000)

C22_Witness ==
    /\ Scenario1
    /\ ret.raised = "none"
    /\ args.new_lp.commitment = DecInt(1000000)

\* The historical data: the same call at 9.5 % (prime 7.5 % + 2 %, accrual to
\* the issue date as in the test) on a
\* commitment of 5,000,000 called at 20 % accrues 336,013.70.
HistoricalCall1 ==
    (/\ op = "_calculate_late_interest_for_call"
     /\ assumptions.late_interest_base = "prime"
     /\ assumptions.end_date_calculation = "issue_date"
     /\ args.call.due_date = Date(2022, 4, 20)
     /\ args.new_lp.issue_date = Date(2025, 10, 31)
     /\ args.new_lp.commitment = DecInt(5000000)
     /\ args.call.call_percentage = DecInt(20))
    => /\ ret.raised = "none"
       /\ ret.detail.late_interest = Dec(33601370, 100)
       /\ ret.detail.capital_amount = DecInt(1000000)


-----------------------------------------------------------------------------
(* A fund of initial closers only                                          *)

OnlyCloseOnePartners ==
    /\ run.pc = "done"
    /\ \A i \in DOMAIN args.partners : args.partners[i].close_number = 1

\* C23: a fund whose partners are all at close 1 produces a result with no
\* new-LP records, no existing-LP allocation records, no per-close
\* summaries, and grand totals collected and allocated both 0.
C23_OnlyCloseOne ==
    OnlyCloseOnePartners
    => /\ ret.raised = "none"
       /\ ret.new_lps = <<>>
       /\ ret.existing_lps = <<>>
       /\ ret.summary_by_close = <<>>
       /\ ret.total_late_interest_collected = str(DecZero)
       /\ ret.total_late_interest_allocated = str(DecZero)

\* A fund of several close-1 partners with capital calls on record
C23_Witness ==
    /\ OnlyCloseOnePartners
    /\ Len(args.partners) >= 2
    /\ args.capital_calls # <<>>
    /\ ret.new_lps = <<>>


-----------------------------------------------------------------------------
(* The per-close map and the total of an aggregated record                 *)

\* C24: in every aggregated allocation record returned by
\* aggregate_allocations_across_closes, for any input allocation lists,
\* total_allocation equals the sum of the values of the record's
\* allocation_by_admitting_close map rounded to sum_rounding.
C24_MapAndTotalAgree ==
    op = "aggregate_allocations_across_closes"
    => \A k \in DOMAIN ret :
          ret[k].total_allocation =
              round_amount(SumAt(ret[k].allocation_by_admitting_close,
                                 DOMAIN ret[k].allocation_by_admitting_close),
                           assumptions.sum_rounding)

\* One close's list names A twice (A's original record and the record of its
\* increased commitment): the total counts both allocations, the map holds
\* the second only.
C24_Witness ==
    /\ op = "aggregate_allocations_across_closes"
    /\ ~AggNamesUniquePerClose
    /\ assumptions.sum_rounding = 2
    /\ Len(ret) = 1
    /\ ret[1].partner_name = "A"
    /\ ret[1].total_allocation = DecMul(DecInt(5), Cent)
    /\ ret[1].allocation_by_admitting_close = (2 :> DecMul(DecInt(4), Cent))

\* What the code does: the two agree whenever no close's list names a partner
\* twice.
MapAndTotalAgreeForUniqueNames ==
    (op = "aggregate_allocations_across_closes" /\ AggNamesUniquePerClose)
    => \A k \in DOMAIN ret :
          ret[k].total_allocation =
              round_amount(SumAt(ret[k].allocation_by_admitting_close,
                                 DOMAIN ret[k].allocation_by_admitting_close),
                           assumptions.sum_rounding)


-----------------------------------------------------------------------------
(* Days reported and days charged                                          *)

\* The rate in force on one day
RateOnDay(day) ==
    IF rate_calculator.is_flat_rate THEN rate_calculator.flat_rate
    ELSE get_rate_at_date(rate_calculator, day).rate

\* Interest on principal for the n consecutive days from first_day on, each
\* day at 1/365 of the rate in force on it
AccruedOverDays(principal, first_day, n) ==
    DecSum([k \in 1..n |-> SegmentInterest(principal, RateOnDay(first_day + k - 1), 1)])

\* The capital a detail's call asks of the new LP
CalledCapital(detail) ==
    DecMul(args.new_lp.commitment, DecDiv(detail.call_percentage, DecInt(Hundred)))

\* C25: for every late-interest detail with days_late > 0 the reported
\* days_late is the exclusive difference (end_date - due_date).days and the
\* interest is accrued over exactly days_late + 1 days, the inclusive count
\* from due_date to end_date: one day more than the day count reported.
C25_ChargedOneDayMore ==
    \A detail \in DetailsProduced :
        detail.days_late > 0
        => /\ detail.days_late = PolicyDays(detail)
           /\ detail.late_interest =
                 round_amount(AccruedOverDays(CalledCapital(detail), detail.due_date,
                                              detail.days_late + 1),
                              assumptions.calc_rounding)

\* A detail whose interest differs from the accrual over the days reported,
\* at a rate that changes within the period
C25_Witness ==
    \E detail \in DetailsProduced :
        /\ detail.days_late = 3
        /\ ~rate_calculator.is_flat_rate
        /\ DecLt(DecZero, detail.late_interest)
        /\ detail.late_interest #
              round_amount(AccruedOverDays(CalledCapital(detail), detail.due_date,
                                           detail.days_late),
                           assumptions.calc_rounding)

C25_WitnessFlat ==
    \E detail \in DetailsProduced :
        /\ detail.days_late = 1
        /\ rate_calculator.is_flat_rate
        /\ detail.late_interest =
              round_amount(SegmentInterest(CalledCapital(detail),
                                           rate_calculator.flat_rate, 2),
                           assumptions.calc_rounding)
        /\ DecLt(DecZero, detail.late_interest)


-----------------------------------------------------------------------------
(* Variable-rate accrual, day by day                                       *)

VariableAccrual ==
    /\ op = "calculate_interest"
    /\ ~rate_calculator.is_flat_rate
    /\ rate_calculator.rate_history # <<>>
    /\ args.start_date <= args.end_date

\* (end_date - start_date).days + 1
TotalDays == (args.end_date - args.start_date) + 1

\* Every history entry carries the same rate
UniformHistory ==
    \A i, j \in DOMAIN rate_calculator.rate_history :
        rate_calculator.rate_history[i].rate = rate_calculator.rate_history[j].rate

\* What the flat-rate formula gives at the rate of the history plus the spread
FlatEquivalent ==
    SegmentInterest(args.principal,
                    DecAdd(rate_calculator.rate_history[1].rate, rate_calculator.spread),
                    TotalDays)

\* C26: in variable-rate simple accrual, for any rate history and any
\* start_date <= end_date, the segments accrued cover each of the
\* (end_date - start_date).days + 1 days exactly once, so that the interest
\* is the sum over those days of the day's accrual; when every history entry
\* carries the same rate r the interest is
\* principal x (r + spread)/100 x total_days/365, the flat-rate result.
C26_SegmentsCoverEveryDay ==
    VariableAccrual
    => /\ ret.raised = "none"
       /\ ret.interest = AccruedOverDays(args.principal, args.start_date,
                                         TotalDays)
       /\ UniformHistory => ret.interest = FlatEquivalent

\* A principal of 0: the call raises instead of returning interest 0
C26_Witness ==
    /\ VariableAccrual
    /\ UniformHistory
    /\ Len(rate_calculator.rate_history) >= 2
    /\ args.principal = DecZero
    /\ ret.raised = "InvalidOperation"

\* What the code does: for a principal other than 0 the claim holds.
SegmentsCoverEveryDayOfNonZeroPrincipal ==
    (VariableAccrual /\ args.principal # DecZero)
    => /\ ret.raised = "none"
       /\ ret.interest = AccruedOverDays(args.principal, args.start_date,
                                         TotalDays)
       /\ UniformHistory => ret.interest = FlatEquivalent

\* Three entries of one rate, two of them inside the period
SegmentsCoverEveryDay_Witness ==
    /\ VariableAccrual
    /\ UniformHistory
    /\ args.principal = DecInt(1000)
    /\ args.start_date = 0
    /\ args.end_date = 3
    /\ Cardinality({rate_calculator.rate_history[i].effective_date
                       : i \in DOMAIN rate_calculator.rate_history}
                   \cap {1, 2, 3}) = 2
    /\ ret.raised = "none"
    /\ ret.interest = FlatEquivalent


-----------------------------------------------------------------------------
(* Variant B without an increase                                           *)

NamesNoExistingPartner ==
    /\ op = "calculate_allocations_with_increases"
    /\ \A i \in ExistingIdx :
          args.all_partners[i].name \notin DOMAIN args.commitment_increases

\* C27: calculate_allocations_with_increases called with a map that names no
\* existing partner, the empty map in particular, returns (or raises) exactly
\* what calculate_allocations does on the same new-LP calculations, partners
\* and admitting close.
C27_VariantBWithoutIncrease ==
    NamesNoExistingPartner
    => ret = calculate_allocations(assumptions, args.new_lps, args.all_partners,
                                   args.admitting_close_number)

\* A map that names somebody, but none of the existing partners, with an
\* allocation made
C27_Witness ==
    /\ NamesNoExistingPartner
    /\ DOMAIN args.commitment_increases # {}
    /\ ret.raised = "none"
    /\ Len(ret.allocations) >= 2
    /\ DecLt(DecZero, ret.total_allocated)

\* The empty map
C27_WitnessEmptyMap ==
    /\ NamesNoExistingPartner
    /\ DOMAIN args.commitment_increases = {}
    /\ ret.raised = "none"
    /\ ret.allocations # <<>>


-----------------------------------------------------------------------------
(* The per-close summaries and the grand totals                            *)

RunReturned == run.pc = "done" /\ ret.raised = "none"

\* C28: in every result of run_complete_calculation, summary_by_close holds
\* exactly one entry per processed close, in ascending close order; each
\* entry's total_collected is its total_allocated plus its difference; the
\* grand total collected is the sum of the entries' total_collected and the
\* sum of total_late_interest_due over all new-LP records; the grand total
\* allocated is the sum of the entries' total_allocated.
C28_SummariesAndTotals ==
    RunReturned
    => LET summary == ret.summary_by_close IN
       /\ [k \in DOMAIN summary |-> summary[k].close_number] = run.closes_to_process
       /\ {summary[k].close_number : k \in DOMAIN summary}
             = {ret.new_lps[j].close_number : j \in DOMAIN ret.new_lps}
       /\ \A k, l \in DOMAIN summary :
             k < l => summary[k].close_number < summary[l].close_number
       /\ \A k \in DOMAIN summary :
             DecOf(summary[k].total_collected)
                 = DecAdd(DecOf(summary[k].total_allocated),
                          DecOf(summary[k].difference))
       /\ DecOf(ret.total_late_interest_collected)
             = DecSum([k \in DOMAIN summary |-> DecOf(summary[k].total_collected)])
       /\ DecOf(ret.total_late_interest_collected)
             = DecSum([j \in DOMAIN ret.new_lps |->
                          DecOf(ret.new_lps[j].total_late_interest_due)])
       /\ DecOf(ret.total_late_interest_allocated)
             = DecSum([k \in DOMAIN summary |-> DecOf(summary[k].total_allocated)])

\* Two closes processed, both collecting and allocating, one of them with a
\* rounding difference
C28_Witness ==
    /\ RunReturned
    /\ Len(ret.summary_by_close) = 2
    /\ \A k \in DOMAIN ret.summary_by_close :
          /\ DecLt(DecZero, DecOf(ret.summary_by_close[k].total_collected))
          /\ DecLt(DecZero, DecOf(ret.summary_by_close[k].total_allocated))
    /\ \E k \in DOMAIN ret.summary_by_close :
          DecOf(ret.summary_by_close[k].difference) # DecZero


-----------------------------------------------------------------------------
(* The DUE_DATE end-date policy                                            *)

DueDatePolicyRun ==
    /\ run.pc = "done"
    /\ assumptions.end_date_calculation = "due_date"

\* The call a detail of a new-LP record was computed for, as the caller gave it
CallOfDetail(detail) ==
    CHOOSE call \in Range(args.capital_calls) : call.call_number = detail.call_number

\* The partner a new-LP record was computed for
PartnerOfRecord(record) ==
    CHOOSE p \in Range(args.partners) : p.name = record.partner_name

\* C29: under the DUE_DATE end-date policy every detail of every new LP has
\* days_late = 0, late_interest = 0 and effective_rate = 0, with
\* capital_amount left unrounded; every new LP's total_late_interest_due is
\* 0; a full run collects 0, performs no allocation at any close and returns
\* no existing-LP allocation records.
C29_DueDatePolicy ==
    DueDatePolicyRun
    => /\ ret.raised = "none"
       /\ \A j \in DOMAIN ret.new_lps :
             /\ ret.new_lps[j].total_late_interest_due = str(DecZero)
             /\ \A k \in DOMAIN ret.new_lps[j].breakdown :
                   LET detail == ret.new_lps[j].breakdown[k] IN
                   /\ detail.days_late = 0
                   /\ detail.late_interest = str(DecZero)
                   /\ detail.effective_rate = str(DecZero)
                   /\ detail.capital_amount =
                         str(DecMul(PartnerOfRecord(ret.new_lps[j]).commitment,
                                    DecDiv(CallOfDetail(detail).call_percentage,
                                           DecInt(Hundred))))
       /\ ret.total_late_interest_collected = str(DecZero)
       /\ ret.total_late_interest_allocated = str(DecZero)
       /\ run.all_allocations_by_close = <<>>
       /\ \A k \in DOMAIN ret.summary_by_close :
             /\ ret.summary_by_close[k].total_collected = str(DecZero)
             /\ ret.summary_by_close[k].total_allocated = str(DecZero)
       /\ ret.existing_lps = <<>>

\* A run under the policy with two closes processed and a missed call whose
\* capital amount, 0.001, has more decimal places than calc_rounding keeps
C29_Witness ==
    /\ DueDatePolicyRun
    /\ Len(ret.summary_by_close) = 2
    /\ \E j \in DOMAIN ret.new_lps :
          \E k \in DOMAIN ret.new_lps[j].breakdown :
             /\ DecOf(ret.new_lps[j].breakdown[k].capital_amount) = Dec(1, 1000)
             /\ round_amount(Dec(1, 1000), assumptions.calc_rounding) # Dec(1, 1000)

\* A run under the policy with missed calls of 500 each
C29_WitnessMissedCalls ==
    /\ DueDatePolicyRun
    /\ \E j \in DOMAIN ret.new_lps :
          /\ Len(ret.new_lps[j].breakdown) = 2
          /\ DecOf(ret.new_lps[j].total_catch_up) = DecInt(1000)


\* The same at the level of one call, on calendar dates, for commitments of
\* 1,000,000 and 5,000,000 and the prime base with and without a history
DueDateDetailIsZero ==
    (op = "_calculate_late_interest_for_call"
        /\ assumptions.end_date_calculation = "due_date")
    => /\ ret.raised = "none"
       /\ ret.detail.days_late = 0
       /\ ret.detail.late_interest = DecZero
       /\ ret.detail.effective_rate = DecZero
       /\ ret.detail.capital_amount
             = DecMul(args.new_lp.commitment,
                      DecDiv(args.call.call_percentage, DecInt(Hundred)))

DueDateDetailIsZero_Witness ==
    /\ op = "_calculate_late_interest_for_call"
    /\ assumptions.end_date_calculation = "due_date"
    /\ assumptions.prime_rate_history = <<>>
    /\ args.new_lp.issue_date > args.call.due_date
    /\ ret.raised = "none"
    /\ ret.detail.capital_amount = DecInt(500000)


-----------------------------------------------------------------------------
(* A principal of zero                                                     *)

ZeroPrincipalCall ==
    /\ op = "calculate_interest"
    /\ args.principal = DecZero
    /\ args.end_date >= args.start_date

\* C30: calculate_interest with principal 0 and end_date >= start_date
\* returns interest 0 without raising, in flat and in variable-rate mode
\* alike.
C30_ZeroPrincipal ==
    ZeroPrincipalCall
    => /\ ret.raised = "none"
       /\ ret.interest = DecZero

\* A principal of zero accrued over a variable-rate period with a rate in force
C30_Witness ==
    /\ ZeroPrincipalCall
    /\ ~rate_calculator.is_flat_rate
    /\ get_rate_at_date(rate_calculator, args.start_date).raised = "none"
    /\ args.end_date > args.start_date

\* What the code does: in flat mode the result is 0; in variable mode, once
\* the segments are summed, the weighted average divides 0 by 0.
ZeroPrincipalByMode ==
    ZeroPrincipalCall
    => IF rate_calculator.is_flat_rate
       THEN ret.raised = "none" /\ ret.interest = DecZero
       ELSE ret.raised \in {"InvalidOperation", NoRateHistoryError}

ZeroPrincipalFlat_Witness ==
    /\ ZeroPrincipalCall
    /\ rate_calculator.is_flat_rate
    /\ ret.raised = "none"

ZeroPrincipalVariable_Witness ==
    /\ ZeroPrincipalCall
    /\ ~rate_calculator.is_flat_rate
    /\ ret.raised = "InvalidOperation"

\* The consequence drawn from it: a missed capital call with call_percentage 0
\* yields a zero-interest detail instead of aborting the LP's calculation.
\* It fails with the accrual: see ZeroPercentageCallAborts_Witness.
ZeroPercentageCallYieldsDetail ==
    (/\ op = "_calculate_late_interest_for_call"
     /\ args.call.call_percentage = DecZero
     /\ assumptions.late_interest_base = "prime" => assumptions.prime_rate_history # <<>>)
    => /\ ret.raised = "none"
       /\ ret.detail.late_interest = DecZero

\* A missed call of 0 % under the prime base with a history: the calculation
\* of the LP is aborted by the division
ZeroPercentageCallAborts_Witness ==
    /\ op = "_calculate_late_interest_for_call"
    /\ args.call.call_percentage = DecZero
    /\ args.new_lp.issue_date > args.call.due_date
    /\ assumptions.prime_rate_history # <<>>
    /\ ret.raised = "InvalidOperation"

====
